---- MODULE Spec2Model ----
(***************************************************************************)
(* Job orchestration of the audio transcription service.                   *)
(*                                                                         *)
(*   Spec    one submission (create_transcription_task), the Celery broker *)
(*           and the executions of process_transcription for its task id.  *)
(*   SpecRL  the Redis sliding-window rate limiter (check_rate_limit).     *)
(*   SpecWin the rate limiter after one caller has used its quota, over a  *)
(*           clock that can pass the end of the window.                    *)
(*   SpecObs Spec with the observers of the job: get_transcription_status  *)
(*           and stream_transcription_progress with its event_generator.   *)
(*   SpecAT  one call of AudioTranscriber.process_audio, step by step, on  *)
(*           each recording of a bounded set.                              *)
(*   SpecRes Spec for recordings whose results differ in shape, with the   *)
(*           reads of the status endpoint.                                 *)
(*   SpecGT  get_transcriber called by jobs that share a worker process.   *)
(*   SpecTwice  assign_speakers_to_words called twice on the same input.   *)
(*                                                                         *)
(* Nullable columns hold Null (<<>>) or Some(v) (<<v>>).  Seconds and      *)
(* confidences, which the code rounds to two decimals, are integers in     *)
(* hundredths.  Timestamps columns (created_at, started_at, completed_at)  *)
(* are written by the code but read by no operation modelled here.         *)
(***************************************************************************)
EXTENDS Integers, Sequences, FiniteSets, TLC

VARIABLES
    config,        \* process environment: USE_CELERY, Redis reachable at startup
    audioResult,   \* what AudioTranscriber.process_audio computes for the audio
    sessions,      \* table transcription_sessions: task id -> row
    wordRows,      \* table transcript_words, in autoincrement order
    speakerRows,   \* table speakers, in autoincrement order
    request,       \* the call of create_transcription_task
    broker,        \* Celery broker: messages sent and deliveries made
    run,           \* the current execution of process_transcription
    transcriber,   \* tasks.py global: Null is None, Some(n) the n-th
                   \* AudioTranscriber constructed in the process
    taskState,     \* Celery result backend: state and meta of the task
    pipelineRuns,  \* number of times process_audio + persistence completed
    now,           \* int(time.time())
    ticks,         \* number of clock advances so far
    zsets,         \* Redis: key -> sorted set (members) and its expiry time
    calls,         \* the check_rate_limit calls made so far, with outcome
    statusReply,   \* the response of the latest get_transcription_status call
    stream,        \* one call of stream_transcription_progress and its events
    passed,        \* history: the statuses the job has had since the stream opened
    audio,         \* the recording as the ASR and diarization engines see it
    pipe,          \* one call of AudioTranscriber.process_audio and its locals
    getters,       \* the calls of get_transcriber by the jobs of one process
    rerun          \* what a second call of assign_speakers_to_words returns

vars == <<config, audioResult, sessions, wordRows, speakerRows, request, broker,
          run, transcriber, taskState, pipelineRuns, now, ticks, zsets, calls,
          statusReply, stream, passed, audio, pipe, getters, rerun>>

jobVars == <<config, audioResult, sessions, wordRows, speakerRows, request,
             broker, run, transcriber, taskState, pipelineRuns>>

rlVars == <<now, ticks, zsets, calls>>

obsVars == <<statusReply, stream, passed>>

atVars == <<audio, pipe, getters, rerun>>

Null == <<>>

Some(v) == <<v>>

(***************************************************************************)
(* Bounds of the model.                                                    *)
(***************************************************************************)
\* deliveries of the task message the broker makes (1 = no redelivery)
MaxDeliveries == 2

\* check_rate_limit calls in one behaviour of SpecRL
MaxCalls == 4

\* clock advances in one behaviour of SpecRL
MaxTicks == 2

\* calls of one behaviour of SpecRL in which Redis raises
MaxRedisFailures == 1

\* RateLimiter(max_requests=...): the limit the limiter is built with
max_requests == 3

\* iterations of the stream's polling loop in one behaviour
MaxPolls == 2

\* calls and clock advances of SpecWin after the quota was used up
MaxLaterCalls == 4

MaxLaterTicks == 4

\* jobs that one worker process executes in threads of their own
MaxJobs == 3

(***************************************************************************)
(* Rate limiter (app/rate_limiter.py).                                     *)
(***************************************************************************)
window_minutes == 1

window_seconds == window_minutes * 60

UserIds == {"u1", "u2"}

ClientIps == {"ip1", "ip2"}

\* the callers of the limiter: two users behind one address, and one of them
\* from a second address
Callers == {<<"u1", "ip1">>, <<"u2", "ip1">>, <<"u1", "ip2">>}

\* main.py:183  f"user:{user_id}:{client_ip}"
RateKey(user_id, client_ip) == "user:" \o user_id \o ":" \o client_ip

Keys == {RateKey(c[1], c[2]) : c \in Callers}

\* the clock advances by one second, or by a whole window less or plus nothing
TickSteps == {1, window_seconds - 1, window_seconds}

EmptyZset == [members |-> {}, expire_at |-> 0]

\* The sorted set stored under a key at time t: Redis drops a key at its expiry.
\* A member is str(current_time) with score current_time, so the member is
\* modelled by the integer it prints: equal seconds give the same member.
Stored(z, t) == IF z.members # {} /\ t >= z.expire_at THEN {} ELSE z.members

\* pipe.zremrangebyscore(key, 0, window_start): scores in [0, window_start] go
ZRemRangeByScore(members, lo, hi) == {m \in members : ~(lo <= m /\ m <= hi)}

\* pipe.zadd(key, {str(current_time): current_time})
ZAdd(members, t) == members \cup {t}

\* The MULTI/EXEC pipeline of check_rate_limit at time t on the stored set z:
\* the new stored set and results[1], the ZCARD taken before the ZADD.
Pipeline(z, t) ==
    LET window_start == t - window_seconds
        kept         == ZRemRangeByScore(Stored(z, t), 0, window_start)
    IN  [zset  |-> [members |-> ZAdd(kept, t), expire_at |-> t + window_seconds],
         count |-> Cardinality(kept)]

\* check_rate_limit answering 429 when Redis raises (fail-closed)
check_rate_limit_fail_closed(z, t, redisOk) ==
    IF ~redisOk
    THEN [zset |-> z, allowed |-> FALSE, degraded |-> TRUE]
    ELSE LET p == Pipeline(z, t)
         IN  [zset |-> p.zset, allowed |-> ~(p.count >= max_requests),
              degraded |-> FALSE]

\* check_rate_limit(key) at time t.  redisOk = FALSE: pipe.execute() raises
\* redis.RedisError, which is caught and logged.  allowed = FALSE is the 429.
check_rate_limit(z, t, redisOk) ==
    IF ~redisOk
    THEN [zset |-> z, allowed |-> TRUE, degraded |-> TRUE]
    ELSE LET p == Pipeline(z, t)
         IN  [zset |-> p.zset, allowed |-> ~(p.count >= max_requests),
              degraded |-> FALSE]

\* The sorted set of a key after n calls made in the seconds 0 .. n - 1 while
\* Redis answers, and the record of the n-th of these calls
RECURSIVE AfterCalls(_)
AfterCalls(n) ==
    IF n = 0 THEN EmptyZset
    ELSE check_rate_limit(AfterCalls(n - 1), n - 1, TRUE).zset

EarlyCall(key, n) ==
    [key |-> key, t |-> n - 1,
     allowed |-> check_rate_limit(AfterCalls(n - 1), n - 1, TRUE).allowed,
     degraded |-> FALSE]

\* the caller has used its quota up: max_requests calls in as many seconds
QuotaUsed == AfterCalls(max_requests)

(***************************************************************************)
(* Job records (app/models.py) and the results of process_audio.           *)
(***************************************************************************)
\* str(uuid.uuid4()) of the one submission followed here
TaskId == "t1"

Owner == "u1"

\* TranscriptionSession(id=task_id, user_id=..., status="pending", ...) with
\* the column defaults of models.py: progress 0, every other column NULL
NewSession(user_id) ==
    [user_id |-> user_id, status |-> "pending", progress |-> 0,
     language |-> Null, duration_seconds |-> Null, confidence_score |-> Null,
     error_message |-> Null]

\* Two results process_audio can return (AudioTranscriber.process_audio builds
\* language, duration_sec, transcript, speakers, confidence).
ResultOneSpeaker ==
    [language |-> "en", duration_sec |-> 1000, confidence |-> 85,
     transcript |-> << [word |-> "hello", start |-> 0, end |-> 50,
                        speaker |-> "speaker_1"] >>,
     speakers |-> << [id |-> "speaker_1", total_sec |-> 50] >>]

ResultTwoSpeakers ==
    [language |-> "fr", duration_sec |-> 4000, confidence |-> 62,
     transcript |-> << [word |-> "bonjour", start |-> 0, end |-> 80,
                        speaker |-> "speaker_1"],
                       [word |-> "merci", start |-> 3100, end |-> 3150,
                        speaker |-> "speaker_2"] >>,
     speakers |-> << [id |-> "speaker_1", total_sec |-> 80],
                     [id |-> "speaker_2", total_sec |-> 50] >>]

Results == {ResultOneSpeaker, ResultTwoSpeakers}

\* str(e) of the exceptions the collaborators raise; some carry no message
\* (audioread's NoBackendError out of librosa.load, a bare assert)
ExcMessages == {"", "boom"}

\* TranscriptWord(session_id=task_id, word=..., start_time=..., ...)
WordRow(task_id, w) ==
    [session_id |-> task_id, word |-> w.word, start_time |-> w.start,
     end_time |-> w.end, speaker_label |-> w.speaker]

\* Speaker(session_id=task_id, speaker_id=..., total_seconds=...)
SpeakerRow(task_id, sp) ==
    [session_id |-> task_id, speaker_id |-> sp.id, total_seconds |-> sp.total_sec]

WordRowsOf(task_id, result) ==
    [i \in 1..Len(result.transcript) |-> WordRow(task_id, result.transcript[i])]

SpeakerRowsOf(task_id, result) ==
    [i \in 1..Len(result.speakers) |-> SpeakerRow(task_id, result.speakers[i])]

Exists(task_id) == task_id \in DOMAIN sessions

Row == sessions[TaskId]

\* pc: the statement to execute; exc, src: str(e) of the exception caught and
\* the statement that raised it; stored: the progress stored when it was
\* raised; handlerOk: whether the except branch managed to write the record;
\* raised: the statement whose exception leaves run_transcription
IdleRun == [pc |-> "idle", exc |-> Null, src |-> "none", stored |-> 0,
            result |-> Null, handlerOk |-> FALSE, raised |-> "none"]

NoTaskState == [state |-> "PENDING", progress |-> 0]

\* the jobs of one worker process, numbered in the order the process takes
\* them up
Jobs == 1..MaxJobs

\* a job's call of get_transcriber (line 66): the statement to execute, the
\* instance it constructed and the value the call returned
NoGetter == [pc |-> "idle", made |-> Null, got |-> Null]

NoGetters == [j \in Jobs |-> NoGetter]

(***************************************************************************)
(* Submission: create_transcription_task (app/main.py).                    *)
(***************************************************************************)
\* what the caller sends: a url, a good file, neither, both, a file with an
\* extension outside ALLOWED_EXTENSIONS, a file larger than MAX_FILE_SIZE
SubmitInputs == {"url", "file", "none", "both", "bad_ext", "too_large"}

NoRequest == [pc |-> "start", code |-> 0, status |-> "none", dispatch |-> "none"]

Respond(code, status, dispatch) ==
    [pc |-> "returned", code |-> code, status |-> status, dispatch |-> dispatch]

\* validate_audio_file and the length check made while the upload is read
validate_audio_file(input) == input \notin {"bad_ext", "too_large"}

\* create_transcription_task storing the job record before it validates the
\* input
create_transcription_task_record_first ==
    /\ request.pc = "start"
    /\ \E input \in SubmitInputs, redisOk \in BOOLEAN, dbOk \in BOOLEAN :
         LET key == RateKey(Owner, "ip1")
             rl  == IF config.redis_client
                    THEN check_rate_limit(zsets[key], now, redisOk)
                    ELSE [zset |-> zsets[key], allowed |-> TRUE, degraded |-> FALSE]
         IN  /\ zsets' = [zsets EXCEPT ![key] = rl.zset]
             /\ calls' = IF config.redis_client
                         THEN Append(calls, [key |-> key, t |-> now,
                                             allowed |-> rl.allowed,
                                             degraded |-> rl.degraded])
                         ELSE calls
             /\ IF ~rl.allowed
                THEN request' = Respond(429, "none", "none") /\ UNCHANGED sessions
                ELSE IF ~dbOk
                THEN request' = Respond(500, "none", "none") /\ UNCHANGED sessions
                ELSE /\ sessions' = (TaskId :> NewSession(Owner)) @@ sessions
                     /\ request' =
                          IF input \in {"none", "both"} \/ ~validate_audio_file(input)
                          THEN Respond(400, "none", "none")
                          ELSE [request EXCEPT !.pc = "committed"]
    /\ UNCHANGED <<config, audioResult, wordRows, speakerRows, broker, run,
                   transcriber, taskState, pipelineRuns, now, ticks>>
    /\ UNCHANGED obsVars
    /\ UNCHANGED atVars

\* create_transcription_task validating the input before it asks the rate
\* limiter
create_transcription_task_validates_first ==
    /\ request.pc = "start"
    /\ \E input \in SubmitInputs, redisOk \in BOOLEAN, dbOk \in BOOLEAN :
         LET key == RateKey(Owner, "ip1")
             bad == input \in {"none", "both"} \/ ~validate_audio_file(input)
             rl  == IF config.redis_client /\ ~bad
                    THEN check_rate_limit(zsets[key], now, redisOk)
                    ELSE [zset |-> zsets[key], allowed |-> TRUE, degraded |-> FALSE]
         IN  /\ zsets' = [zsets EXCEPT ![key] = rl.zset]
             /\ calls' = IF config.redis_client /\ ~bad
                         THEN Append(calls, [key |-> key, t |-> now,
                                             allowed |-> rl.allowed,
                                             degraded |-> rl.degraded])
                         ELSE calls
             /\ IF bad
                THEN request' = Respond(400, "none", "none") /\ UNCHANGED sessions
                ELSE IF ~rl.allowed
                THEN request' = Respond(429, "none", "none") /\ UNCHANGED sessions
                ELSE IF ~dbOk
                THEN request' = Respond(500, "none", "none") /\ UNCHANGED sessions
                ELSE /\ sessions' = (TaskId :> NewSession(Owner)) @@ sessions
                     /\ request' = [request EXCEPT !.pc = "committed"]
    /\ UNCHANGED <<config, audioResult, wordRows, speakerRows, broker, run,
                   transcriber, taskState, pipelineRuns, now, ticks>>
    /\ UNCHANGED obsVars
    /\ UNCHANGED atVars

\* create_transcription_task sending the task to the queue where it commits
\* the job record
create_transcription_task_sends_first ==
    /\ request.pc = "start"
    /\ \E input \in SubmitInputs, redisOk \in BOOLEAN, dbOk \in BOOLEAN :
         LET key == RateKey(Owner, "ip1")
             rl  == IF config.redis_client
                    THEN check_rate_limit(zsets[key], now, redisOk)
                    ELSE [zset |-> zsets[key], allowed |-> TRUE, degraded |-> FALSE]
         IN  /\ zsets' = [zsets EXCEPT ![key] = rl.zset]
             /\ calls' = IF config.redis_client
                         THEN Append(calls, [key |-> key, t |-> now,
                                             allowed |-> rl.allowed,
                                             degraded |-> rl.degraded])
                         ELSE calls
             /\ IF ~rl.allowed
                THEN request' = Respond(429, "none", "none") /\ UNCHANGED broker
                ELSE IF input \in {"none", "both"} \/ ~validate_audio_file(input)
                THEN request' = Respond(400, "none", "none") /\ UNCHANGED broker
                ELSE IF ~dbOk
                THEN request' = Respond(500, "none", "none") /\ UNCHANGED broker
                ELSE /\ broker' = [broker EXCEPT !.sent = @ + 1]
                     /\ request' = [request EXCEPT !.pc = "committed"]
    /\ UNCHANGED <<config, audioResult, sessions, wordRows, speakerRows, run,
                   transcriber, taskState, pipelineRuns, now, ticks>>
    /\ UNCHANGED obsVars
    /\ UNCHANGED atVars

\* Lines 180-237: rate limiting, input validation, the job record's insert and
\* commit.  redisOk and dbOk tell whether Redis and the database answer.
create_transcription_task ==
    /\ request.pc = "start"
    /\ \E input \in SubmitInputs, redisOk \in BOOLEAN, dbOk \in BOOLEAN :
         LET key == RateKey(Owner, "ip1")
             rl  == IF config.redis_client
                    THEN check_rate_limit(zsets[key], now, redisOk)
                    ELSE [zset |-> zsets[key], allowed |-> TRUE, degraded |-> FALSE]
         IN  /\ zsets' = [zsets EXCEPT ![key] = rl.zset]
             /\ calls' = IF config.redis_client
                         THEN Append(calls, [key |-> key, t |-> now,
                                             allowed |-> rl.allowed,
                                             degraded |-> rl.degraded])
                         ELSE calls
             /\ IF ~rl.allowed
                THEN request' = Respond(429, "none", "none") /\ UNCHANGED sessions
                ELSE IF input \in {"none", "both"} \/ ~validate_audio_file(input)
                THEN request' = Respond(400, "none", "none") /\ UNCHANGED sessions
                ELSE IF ~dbOk
                THEN request' = Respond(500, "none", "none") /\ UNCHANGED sessions
                ELSE /\ sessions' = (TaskId :> NewSession(Owner)) @@ sessions
                     /\ request' = [request EXCEPT !.pc = "committed"]
    /\ UNCHANGED <<config, audioResult, wordRows, speakerRows, broker, run,
                   transcriber, taskState, pipelineRuns, now, ticks>>
    /\ UNCHANGED obsVars
    /\ UNCHANGED atVars

\* Lines 239-275: the dispatch.  With USE_CELERY and Redis the task is sent to
\* the queue (sendOk = FALSE: send_task raises).  Otherwise the thread's
\* target, process_audio_background, is a name main.py neither defines nor
\* imports: evaluating it raises NameError, which the handler's
\* "except Exception" turns into a 500; no thread is started.
dispatch_task ==
    /\ request.pc = "committed"
    /\ \E sendOk \in BOOLEAN :
         IF config.use_celery /\ config.redis_client
         THEN IF sendOk
              THEN /\ broker' = [broker EXCEPT !.sent = @ + 1]
                   /\ request' = Respond(200, "pending", "celery")
              ELSE /\ request' = Respond(500, "none", "celery")
                   /\ UNCHANGED broker
         ELSE /\ request' = Respond(500, "none", "thread")
              /\ UNCHANGED broker
    /\ UNCHANGED <<config, audioResult, sessions, wordRows, speakerRows, run,
                   transcriber, taskState, pipelineRuns>>
    /\ UNCHANGED rlVars
    /\ UNCHANGED obsVars
    /\ UNCHANGED atVars

(***************************************************************************)
(* The worker: process_transcription.run_transcription (app/tasks.py).     *)
(* One action per statement that can raise.  An execution runs to its end   *)
(* before the next delivery of the same message is taken up.               *)
(***************************************************************************)
\* the broker hands the task message to a worker; a message that was sent can
\* be delivered again (at-least-once delivery)
deliver ==
    /\ broker.sent > 0
    /\ broker.delivered < MaxDeliveries
    /\ run.pc \in {"idle", "done", "raised"}
    /\ broker' = [broker EXCEPT !.delivered = @ + 1]
    /\ run' = [IdleRun EXCEPT !.pc = "get"]
    /\ UNCHANGED <<config, audioResult, sessions, wordRows, speakerRows, request,
                   transcriber, taskState, pipelineRuns>>
    /\ UNCHANGED rlVars
    /\ UNCHANGED obsVars
    /\ UNCHANGED atVars

\* an exception with str(e) = msg leaves the try block at statement src
Raise(src, msg) ==
    [run EXCEPT !.pc = "handler", !.exc = Some(msg), !.src = src,
                !.stored = IF Exists(TaskId) THEN Row.progress ELSE 0]

Goto(pc) == [run EXCEPT !.pc = pc]

\* session.<column> = value ...; await db.commit()
CommitSession(row) == [sessions EXCEPT ![TaskId] = row]

\* history of the statuses stored for the job while a stream is open on it,
\* extended by every write of the status column (table: the table written)
Passing(table) ==
    IF stream.pc = "polling" THEN passed \cup {table[TaskId].status} ELSE passed

\* current_task.update_state(state=..., meta={"progress": ...})
update_state(state, progress) == [state |-> state, progress |-> progress]

\* lines 50-52: session = await db.get(...); raise if there is none
rt_get ==
    /\ run.pc = "get"
    /\ \E ok \in BOOLEAN, msg \in ExcMessages :
         run' = IF ~ok THEN Raise("get", msg)
                ELSE IF ~Exists(TaskId) THEN Raise("get", "Session t1 not found")
                ELSE Goto("commit_processing")
    /\ UNCHANGED <<config, audioResult, sessions, wordRows, speakerRows, request,
                   broker, transcriber, taskState, pipelineRuns>>
    /\ UNCHANGED rlVars
    /\ UNCHANGED obsVars
    /\ UNCHANGED atVars

\* lines 54-57: status = "processing", progress = 10, commit
rt_commit_processing ==
    /\ run.pc = "commit_processing"
    /\ \E ok \in BOOLEAN, msg \in ExcMessages :
         IF ok
         THEN /\ sessions' = CommitSession([Row EXCEPT !.status = "processing",
                                                       !.progress = 10])
              /\ run' = Goto("update_state_10")
         ELSE /\ run' = Raise("commit", msg)
              /\ UNCHANGED sessions
    /\ UNCHANGED <<config, audioResult, wordRows, speakerRows, request, broker,
                   transcriber, taskState, pipelineRuns>>
    /\ UNCHANGED rlVars
    /\ passed' = Passing(sessions')
    /\ UNCHANGED <<statusReply, stream>>
    /\ UNCHANGED atVars

\* the three update_state(state="PROGRESS") calls, lines 60-63, 71-74, 82-85
rt_update_state(pc, progress, next) ==
    /\ run.pc = pc
    /\ \E ok \in BOOLEAN, msg \in ExcMessages :
         IF ok
         THEN /\ taskState' = update_state("PROGRESS", progress)
              /\ run' = Goto(next)
         ELSE /\ run' = Raise("update_state", msg)
              /\ UNCHANGED taskState
    /\ UNCHANGED <<config, audioResult, sessions, wordRows, speakerRows, request,
                   broker, transcriber, pipelineRuns>>
    /\ UNCHANGED rlVars
    /\ UNCHANGED obsVars
    /\ UNCHANGED atVars

rt_update_state_10 == rt_update_state("update_state_10", 10, "get_transcriber")

\* line 66 and get_transcriber, lines 29-35: the instance is built on first use
\* only, so only the first use can raise
rt_get_transcriber ==
    /\ run.pc = "get_transcriber"
    /\ \E ok \in BOOLEAN, msg \in ExcMessages :
         IF ok \/ transcriber # Null
         THEN /\ transcriber' = IF transcriber = Null
                                THEN Some(1) ELSE transcriber
              /\ run' = Goto("commit_20")
         ELSE /\ run' = Raise("get_transcriber", msg)
              /\ UNCHANGED transcriber
    /\ UNCHANGED <<config, audioResult, sessions, wordRows, speakerRows, request,
                   broker, taskState, pipelineRuns>>
    /\ UNCHANGED rlVars
    /\ UNCHANGED obsVars
    /\ UNCHANGED atVars

\* the progress checkpoints, lines 69-70 and 80-81
rt_commit_progress(pc, progress, next) ==
    /\ run.pc = pc
    /\ \E ok \in BOOLEAN, msg \in ExcMessages :
         IF ok
         THEN /\ sessions' = CommitSession([Row EXCEPT !.progress = progress])
              /\ run' = Goto(next)
         ELSE /\ run' = Raise("commit", msg)
              /\ UNCHANGED sessions
    /\ UNCHANGED <<config, audioResult, wordRows, speakerRows, request, broker,
                   transcriber, taskState, pipelineRuns>>
    /\ UNCHANGED rlVars
    /\ UNCHANGED obsVars
    /\ UNCHANGED atVars

rt_commit_20 == rt_commit_progress("commit_20", 20, "update_state_20")

rt_update_state_20 == rt_update_state("update_state_20", 20, "process_audio")

\* line 77: result = audio_transcriber.process_audio(audio_source)
rt_process_audio ==
    /\ run.pc = "process_audio"
    /\ \E ok \in BOOLEAN, msg \in ExcMessages :
         run' = IF ok
                THEN [run EXCEPT !.pc = "commit_80", !.result = Some(audioResult)]
                ELSE Raise("process_audio", msg)
    /\ UNCHANGED <<config, audioResult, sessions, wordRows, speakerRows, request,
                   broker, transcriber, taskState, pipelineRuns>>
    /\ UNCHANGED rlVars
    /\ UNCHANGED obsVars
    /\ UNCHANGED atVars

rt_commit_80 == rt_commit_progress("commit_80", 80, "update_state_80")

rt_update_state_80 == rt_update_state("update_state_80", 80, "save")

\* save_transcription_results storing the words and leaving the speakers to a
\* later commit
save_speakers_later(task_id, result) ==
    /\ wordRows' = wordRows \o WordRowsOf(task_id, result)
    /\ UNCHANGED speakerRows

\* save_transcription_results, lines 132-154: a row is added for every word
\* and every speaker of the result, then one commit stores them all
save_transcription_results(task_id, result) ==
    /\ wordRows' = wordRows \o WordRowsOf(task_id, result)
    /\ speakerRows' = speakerRows \o SpeakerRowsOf(task_id, result)

\* line 88
rt_save ==
    /\ run.pc = "save"
    /\ \E ok \in BOOLEAN, msg \in ExcMessages :
         IF ok
         THEN /\ save_transcription_results(TaskId, run.result[1])
              /\ pipelineRuns' = pipelineRuns + 1
              /\ run' = Goto("commit_completed")
         ELSE /\ run' = Raise("save", msg)
              /\ UNCHANGED <<wordRows, speakerRows, pipelineRuns>>
    /\ UNCHANGED <<config, audioResult, sessions, request, broker, transcriber,
                   taskState>>
    /\ UNCHANGED rlVars
    /\ UNCHANGED obsVars
    /\ UNCHANGED atVars

\* lines 91-97: the completion write
rt_commit_completed ==
    /\ run.pc = "commit_completed"
    /\ \E ok \in BOOLEAN, msg \in ExcMessages :
         IF ok
         THEN /\ sessions' = CommitSession(
                    [Row EXCEPT !.status = "completed", !.progress = 100,
                                !.language = Some(run.result[1].language),
                                !.duration_seconds = Some(run.result[1].duration_sec),
                                !.confidence_score = Some(run.result[1].confidence)])
              /\ run' = Goto("update_state_success")
         ELSE /\ run' = Raise("commit", msg)
              /\ UNCHANGED sessions
    /\ UNCHANGED <<config, audioResult, wordRows, speakerRows, request, broker,
                   transcriber, taskState, pipelineRuns>>
    /\ UNCHANGED rlVars
    /\ passed' = Passing(sessions')
    /\ UNCHANGED <<statusReply, stream>>
    /\ UNCHANGED atVars

\* lines 99-104: update_state(state="SUCCESS"), still inside the try block
rt_update_state_success ==
    /\ run.pc = "update_state_success"
    /\ \E ok \in BOOLEAN, msg \in ExcMessages :
         IF ok
         THEN /\ taskState' = update_state("SUCCESS", 100)
              /\ run' = Goto("done")
         ELSE /\ run' = Raise("update_state", msg)
              /\ UNCHANGED taskState
    /\ UNCHANGED <<config, audioResult, sessions, wordRows, speakerRows, request,
                   broker, transcriber, pipelineRuns>>
    /\ UNCHANGED rlVars
    /\ UNCHANGED obsVars
    /\ UNCHANGED atVars

\* the except branch with the progress reset to the 0 that the FAILURE meta of
\* line 120 reports
rt_except_resets_progress ==
    /\ run.pc = "handler"
    /\ \E dbOk \in BOOLEAN :
         IF dbOk /\ Exists(TaskId)
         THEN /\ sessions' = CommitSession([Row EXCEPT !.status = "failed",
                                                       !.error_message = run.exc,
                                                       !.progress = 0])
              /\ run' = [run EXCEPT !.pc = "update_state_failure", !.handlerOk = TRUE]
         ELSE /\ run' = [run EXCEPT !.pc = "update_state_failure", !.handlerOk = FALSE]
              /\ UNCHANGED sessions
    /\ UNCHANGED <<config, audioResult, wordRows, speakerRows, request, broker,
                   transcriber, taskState, pipelineRuns>>
    /\ UNCHANGED rlVars
    /\ passed' = Passing(sessions')
    /\ UNCHANGED <<statusReply, stream>>
    /\ UNCHANGED atVars

\* the except branch going on to lines 118-122 without the write of lines
\* 109-114
rt_except_without_write ==
    /\ run.pc = "handler"
    /\ run' = [run EXCEPT !.pc = "update_state_failure", !.handlerOk = TRUE]
    /\ UNCHANGED <<config, audioResult, sessions, wordRows, speakerRows, request,
                   broker, transcriber, taskState, pipelineRuns>>
    /\ UNCHANGED rlVars
    /\ UNCHANGED obsVars
    /\ UNCHANGED atVars

\* the except branch without the inner try of lines 108-116: an exception of
\* the read or the commit leaves run_transcription in place of the first one
rt_except_propagates ==
    /\ run.pc = "handler"
    /\ \E dbOk \in BOOLEAN :
         IF dbOk
         THEN /\ sessions' = IF Exists(TaskId)
                             THEN CommitSession([Row EXCEPT !.status = "failed",
                                                            !.error_message = run.exc])
                             ELSE sessions
              /\ run' = [run EXCEPT !.pc = "update_state_failure",
                                    !.handlerOk = Exists(TaskId)]
         ELSE /\ run' = [run EXCEPT !.pc = "raised", !.handlerOk = FALSE,
                                    !.raised = "handler"]
              /\ UNCHANGED sessions
    /\ UNCHANGED <<config, audioResult, wordRows, speakerRows, request, broker,
                   transcriber, taskState, pipelineRuns>>
    /\ UNCHANGED rlVars
    /\ passed' = Passing(sessions')
    /\ UNCHANGED <<statusReply, stream>>
    /\ UNCHANGED atVars

\* lines 106-116, the except branch: the record is read again and, when found,
\* marked failed with str(e).  A failed commit of the try block has rolled the
\* session back, so the row written here is the stored one.  dbOk = FALSE: the
\* read or the commit raises, and the bare except swallows it.
rt_except ==
    /\ run.pc = "handler"
    /\ \E dbOk \in BOOLEAN :
         IF dbOk /\ Exists(TaskId)
         THEN /\ sessions' = CommitSession([Row EXCEPT !.status = "failed",
                                                       !.error_message = run.exc])
              /\ run' = [run EXCEPT !.pc = "update_state_failure", !.handlerOk = TRUE]
         ELSE /\ run' = [run EXCEPT !.pc = "update_state_failure", !.handlerOk = FALSE]
              /\ UNCHANGED sessions
    /\ UNCHANGED <<config, audioResult, wordRows, speakerRows, request, broker,
                   transcriber, taskState, pipelineRuns>>
    /\ UNCHANGED rlVars
    /\ passed' = Passing(sessions')
    /\ UNCHANGED <<statusReply, stream>>
    /\ UNCHANGED atVars

\* lines 118-122: update_state(state="FAILURE", meta={"progress": 0, ...}) and
\* the re-raise; when update_state raises, that exception propagates instead
rt_reraise ==
    /\ run.pc = "update_state_failure"
    /\ \E ok \in BOOLEAN :
         /\ taskState' = IF ok THEN update_state("FAILURE", 0) ELSE taskState
         /\ run' = [run EXCEPT !.pc = "raised",
                               !.raised = IF ok THEN run.src
                                          ELSE "update_state_failure"]
    /\ UNCHANGED <<config, audioResult, sessions, wordRows, speakerRows, request,
                   broker, transcriber, pipelineRuns>>
    /\ UNCHANGED rlVars
    /\ UNCHANGED obsVars
    /\ UNCHANGED atVars

(***************************************************************************)
(* The observers: get_transcription_status, get_transcription_result and   *)
(* stream_transcription_progress (app/main.py).                            *)
(***************************************************************************)
\* the task ids a caller asks about: the submitted one and one never issued
TaskIds == {TaskId, "t0"}

\* Python's "x or default" on a nullable column: None and the falsy value of
\* the column's type (0, "") both give the default
Or(column, falsy, default) ==
    IF column = Null \/ column[1] = falsy THEN default ELSE column[1]

\* select(...).where(session_id == task_id)
WhereSession(rows, task_id) == SelectSeq(rows, LAMBDA r : r.session_id = task_id)

\* .order_by(key): rows in ascending order of keys[i]; rows with equal keys
\* stay in stored order (the only equal keys of this model are those of
\* identical rows, whose order does not show)
OrderBy(rows, keys) ==
    LET n == Len(rows)
        pos(i) == 1 + Cardinality({j \in 1..n : \/ keys[j] < keys[i]
                                                \/ keys[j] = keys[i] /\ j < i})
    IN  [p \in 1..n |-> rows[CHOOSE i \in 1..n : pos(i) = p]]

\* get_transcription_result, lines 476-524, for the record object session that
\* db.get returns and the rows the two selects read
get_transcription_result(session, words, speakers) ==
    LET ws == OrderBy(words, [i \in 1..Len(words) |-> words[i].start_time])
        ss == OrderBy(speakers,
                      [i \in 1..Len(speakers) |-> 0 - speakers[i].total_seconds])
    IN  [language     |-> Or(session.language, "", "en"),
         duration_sec |-> Or(session.duration_seconds, 0, 0),
         transcript   |-> [i \in 1..Len(ws) |->
                             [word |-> ws[i].word, start |-> ws[i].start_time,
                              end |-> ws[i].end_time,
                              speaker |-> ws[i].speaker_label]],
         speakers     |-> [i \in 1..Len(ss) |->
                             [id |-> ss[i].speaker_id,
                              total_sec |-> ss[i].total_seconds]],
         confidence   |-> Or(session.confidence_score, 0, 85)]

\* the result read now for task_id through the record object session
ResultNow(session, task_id) ==
    get_transcription_result(session, WhereSession(wordRows, task_id),
                             WhereSession(speakerRows, task_id))

\* an HTTP response of the status endpoint: status, progress, result and error
\* are Null when the response has no such key
Reply(code, status, progress, result, error) ==
    [code |-> code, status |-> status, progress |-> progress,
     result |-> result, error |-> error]

\* the request of a status call and the response to it
Asked(task_id, user_id, response) ==
    [task_id |-> task_id, user_id |-> user_id, response |-> response]

NoReply == Asked("none", "none", Reply(0, Null, Null, Null, Null))

\* get_transcription_status with the ownership check of lines 458-459 left out
StatusResponseNoOwnerCheck(task_id, user_id, dbOk) ==
    IF ~dbOk THEN Reply(500, Null, Null, Null, Null)
    ELSE IF ~Exists(task_id) THEN Reply(404, Null, Null, Null, Null)
    ELSE LET session == sessions[task_id]
         IN  Reply(200, Some(session.status), Some(session.progress),
                   IF session.status = "completed"
                   THEN Some(ResultNow(session, task_id)) ELSE Null,
                   IF session.status = "failed"
                   THEN Some(session.error_message) ELSE Null)

\* get_transcription_status with the result attached whatever the status
StatusResponseAlwaysResult(task_id, user_id, dbOk) ==
    IF ~dbOk THEN Reply(500, Null, Null, Null, Null)
    ELSE IF ~Exists(task_id) THEN Reply(404, Null, Null, Null, Null)
    ELSE IF sessions[task_id].user_id # user_id
    THEN Reply(403, Null, Null, Null, Null)
    ELSE LET session == sessions[task_id]
         IN  Reply(200, Some(session.status), Some(session.progress),
                   Some(ResultNow(session, task_id)),
                   IF session.status = "failed"
                   THEN Some(session.error_message) ELSE Null)

\* get_transcription_status, lines 446-474, for a caller user_id.  dbOk = FALSE:
\* db.get or a select raises, which FastAPI answers with a 500.  The error key
\* of a failed job holds the column as stored.
StatusResponse(task_id, user_id, dbOk) ==
    IF ~dbOk THEN Reply(500, Null, Null, Null, Null)
    ELSE IF ~Exists(task_id) THEN Reply(404, Null, Null, Null, Null)
    ELSE IF sessions[task_id].user_id # user_id
    THEN Reply(403, Null, Null, Null, Null)
    ELSE LET session == sessions[task_id]
         IN  Reply(200, Some(session.status), Some(session.progress),
                   IF session.status = "completed"
                   THEN Some(ResultNow(session, task_id)) ELSE Null,
                   IF session.status = "failed"
                   THEN Some(session.error_message) ELSE Null)

get_transcription_status ==
    /\ \E task_id \in TaskIds, user_id \in UserIds, dbOk \in BOOLEAN :
         statusReply' = Asked(task_id, user_id,
                              StatusResponse(task_id, user_id, dbOk))
    /\ UNCHANGED <<stream, passed>>
    /\ UNCHANGED jobVars
    /\ UNCHANGED rlVars
    /\ UNCHANGED atVars

\* pc: none (not called), rejected (an error response), polling (the event
\* generator runs), ended (the generator has returned).  cached: the record
\* object the generator's local variable session refers to, which is the one
\* the identity map of the request's AsyncSession holds.  last_status: the
\* generator's local, Null is None.  polls: loop iterations made.
NoStream == [pc |-> "none", task_id |-> "none", user_id |-> "none", code |-> 0,
             cached |-> Null, last_status |-> Null, events |-> <<>>, polls |-> 0]

\* the events of the stream; keys an event does not have are Null
Snapshot(session) ==
    [kind |-> "snapshot", status |-> Some(session.status),
     progress |-> Some(session.progress),
     error |-> IF session.status = "failed"
                  /\ session.error_message \notin {Null, Some("")}
               THEN session.error_message ELSE Null,
     result |-> Null]

ResultEvent(result) ==
    [kind |-> "result", status |-> Null, progress |-> Null, error |-> Null,
     result |-> Some(result)]

ErrorEvent(msg) ==
    [kind |-> "error", status |-> Some("error"), progress |-> Null,
     error |-> Some(msg), result |-> Null]

\* lines 367-373 and 436-444: the checks made before the stream starts
stream_transcription_progress ==
    /\ stream.pc = "none"
    /\ \E task_id \in TaskIds, user_id \in UserIds, dbOk \in BOOLEAN :
         IF ~dbOk \/ ~Exists(task_id) \/ sessions[task_id].user_id # user_id
         THEN /\ stream' = [stream EXCEPT
                    !.pc = "rejected", !.task_id = task_id, !.user_id = user_id,
                    !.code = IF ~dbOk THEN 500
                             ELSE IF ~Exists(task_id) THEN 404 ELSE 403]
              /\ UNCHANGED passed
         ELSE /\ stream' = [stream EXCEPT !.pc = "polling", !.code = 200,
                                          !.task_id = task_id, !.user_id = user_id]
              /\ passed' = {sessions[task_id].status}
    /\ UNCHANGED statusReply
    /\ UNCHANGED jobVars
    /\ UNCHANGED rlVars
    /\ UNCHANGED atVars

\* lines 394-421 with the result event of lines 413-416 left out
OnStatusChangeNoResult(session, resOk, msg) ==
    [events |-> <<Snapshot(session)>>,
     pc     |-> IF session.status \in {"completed", "failed"}
                THEN "ended" ELSE "polling"]

\* lines 394-421 and 426-434: what one iteration emits when session.status
\* differs from last_status, and whether the loop goes on.  resOk = FALSE: a
\* read of get_transcription_result raises an exception with str(e) = msg.
OnStatusChange(session, resOk, msg) ==
    IF session.status = "completed"
    THEN [events |-> <<Snapshot(session),
                       IF resOk THEN ResultEvent(ResultNow(session, TaskId))
                       ELSE ErrorEvent(msg)>>,
          pc     |-> "ended"]
    ELSE [events |-> <<Snapshot(session)>>,
          pc     |-> IF session.status = "failed" THEN "ended" ELSE "polling"]

\* the test of line 394 replaced by one that every iteration passes
StatusChangedAlways(session, last_status) == TRUE

\* line 394: if session.status != last_status (None before the first emission)
StatusChanged(session, last_status) == Some(session.status) # last_status

\* a failed read answered by another iteration instead of the error event
OnFailedReadRetries(msg) == [events |-> <<>>, pc |-> "polling"]

\* lines 382-391 and 426-434: a read that raised an exception with str(e) = msg,
\* or found no record (msg = "Task not found"), is answered with one error
\* event, and the loop is left
OnFailedRead(msg) == [events |-> <<ErrorEvent(msg)>>, pc |-> "ended"]

\* One iteration of event_generator's loop, lines 379-434.  db.get returns the
\* object of the session's identity map without emitting SQL when the map
\* holds one.  The map refers to its objects weakly: the object loaded at line
\* 368 is freed when the handler returns, so the first iteration loads the
\* row (dbOk = FALSE: the load raises).  From then on the generator's local
\* variable keeps the loaded object alive, and the db.get of every later
\* iteration returns that same object, whatever has been committed since.
event_generator ==
    /\ stream.pc = "polling"
    /\ stream.polls < MaxPolls
    /\ \E dbOk \in BOOLEAN, resOk \in BOOLEAN, msg \in ExcMessages :
         LET load    == stream.cached = Null
             session == IF load THEN Row ELSE stream.cached[1]
             out     == OnStatusChange(session, resOk, msg)
             failed  == OnFailedRead(IF dbOk THEN "Task not found" ELSE msg)
         IN  IF load /\ (~dbOk \/ ~Exists(TaskId))
             THEN stream' = [stream EXCEPT
                                !.pc = failed.pc, !.polls = @ + 1,
                                !.events = @ \o failed.events]
             ELSE IF StatusChanged(session, stream.last_status)
             THEN stream' = [stream EXCEPT
                                !.pc = out.pc, !.polls = @ + 1,
                                !.cached = Some(session),
                                !.last_status = Some(session.status),
                                !.events = @ \o out.events]
             ELSE stream' = [stream EXCEPT !.polls = @ + 1,
                                           !.cached = Some(session)]
    /\ UNCHANGED <<statusReply, passed>>
    /\ UNCHANGED jobVars
    /\ UNCHANGED rlVars
    /\ UNCHANGED atVars

(***************************************************************************)
(* The pipeline: AudioTranscriber (audio_transcription_core, src/test.py). *)
(* Times the engines return are in milliseconds, as fractions where the    *)
(* code divides; the values the code rounds to two decimals are integers   *)
(* in hundredths.  Floating-point error is not modelled.                   *)
(***************************************************************************)
\* milliseconds in a second
Milli == 1000

\* the time n / d milliseconds
Time(n, d) == [n |-> n, d |-> d]

\* num / den rounded to the nearest integer, a tie to the even one (num >= 0)
RoundHalfEven(num, den) ==
    LET q == num \div den
        r == num % den
    IN  IF 2 * r < den THEN q
        ELSE IF 2 * r > den THEN q + 1
        ELSE IF q % 2 = 0 THEN q ELSE q + 1

\* round(t, 2) for t in seconds: the result in hundredths of a second
Round2(t) == RoundHalfEven(t.n, (Milli \div 100) * t.d)

\* Text is a sequence of pieces, each either the blank " " or a run of
\* non-blank characters, two runs never adjacent.
RECURSIVE Join(_)
Join(pieces) == IF pieces = <<>> THEN "" ELSE Head(pieces) \o Join(Tail(pieces))

RECURSIVE LStrip(_)
LStrip(pieces) ==
    IF pieces # <<>> /\ Head(pieces) = " " THEN LStrip(Tail(pieces)) ELSE pieces

RECURSIVE RStrip(_)
RStrip(pieces) ==
    IF pieces # <<>> /\ pieces[Len(pieces)] = " "
    THEN RStrip(SubSeq(pieces, 1, Len(pieces) - 1)) ELSE pieces

\* str.strip()
Strip(pieces) == Join(RStrip(LStrip(pieces)))

\* str.split(): the whitespace-delimited tokens
Split(pieces) == SelectSeq(pieces, LAMBDA p : p # " ")

\* an entry of a Whisper segment's "words" list
WhisperWord(word, start, end) == [word |-> word, start |-> start, end |-> end]

\* Whisper segments.  words is Null for a segment without the "words" key;
\* avg_prob is Null for a segment without "avg_logprob" and otherwise
\* np.exp(avg_logprob) in thousandths.
SegHello ==
    [start |-> 0, end |-> 9996, text |-> <<" ", "hello", " ", "world">>,
     words |-> Some(<<WhisperWord(<<" ", "hello">>, 0, 5004),
                      WhisperWord(<<" ", "world">>, 5004, 9996)>>),
     avg_prob |-> Some(850)]

\* its first word has its midpoint at 30 s, the end of the first window
SegLate ==
    [start |-> 29500, end |-> 32000, text |-> <<" ", "merci", " ", "bien">>,
     words |-> Some(<<WhisperWord(<<" ", "merci">>, 29500, 30500),
                      WhisperWord(<<" ", "bien">>, 31000, 32000)>>),
     avg_prob |-> Some(2)]

\* segment-level span only, three tokens
SegPlain ==
    [start |-> 0, end |-> 10000, text |-> <<"a", " ", "b", " ", "c">>,
     words |-> Null, avg_prob |-> Null]

\* segment-level span of blank text
SegBlank ==
    [start |-> 40000, end |-> 41000, text |-> <<" ">>,
     words |-> Null, avg_prob |-> Some(400)]

\* an empty "words" list
SegNoWords ==
    [start |-> 50000, end |-> 52000, text |-> <<" ", "eh">>,
     words |-> Some(<<>>), avg_prob |-> Null]

WhisperSegments == {SegHello, SegLate, SegPlain, SegBlank, SegNoWords}

\* segments of one Whisper result
MaxSegments == 2

\* turns of one diarization
MaxTurns == 2

SeqsUpTo(S, n) == UNION {[1..k -> S] : k \in 0..n}

\* whisper_model.transcribe(...): language and segments, each key possibly
\* missing (Null)
WhisperResults ==
    [language : {Null, Some("fr")},
     segments : {Null} \cup {Some(ss) : ss \in SeqsUpTo(WhisperSegments, MaxSegments)}]

\* a turn of the diarization: the label as its parts between underscores
Turn(label, start, end) == [label |-> label, start |-> start, end |-> end]

\* turns of two speakers that overlap (4 s to 5 s) and touch (at 30 s), and
\* one of a speaker whose label has no underscore
Turns == {Turn(<<"SPEAKER", "00">>, 0, 5000),
          Turn(<<"SPEAKER", "01">>, 4000, 30000),
          Turn(<<"SPEAKER", "00">>, 30000, 40000),
          Turn(<<"B">>, 31000, 32000)}

\* the diarization pipeline: not loaded (None), raising when called, or
\* yielding turns, which itertracks yields in the order of their starts
Diarizations ==
    {[kind |-> "unloaded", turns |-> <<>>], [kind |-> "raises", turns |-> <<>>]}
        \cup {[kind |-> "turns", turns |-> ts] :
                 ts \in {t \in SeqsUpTo(Turns, MaxTurns) :
                           \A i \in 1..(Len(t) - 1) : t[i].start <= t[i + 1].start}}

\* len(audio) / sr of the recordings, in milliseconds
Durations == {0, 10 * Milli, 60 * Milli, 70 * Milli}

AudioInputs ==
    [duration : Durations, whisper : WhisperResults, diarization : Diarizations]

\* perform_diarization, line 116
segment_length == 30 * Milli

\* the windows of the fallback with the speakers in the other order
RECURSIVE FallbackSegmentsFromTwo(_, _, _)
FallbackSegmentsFromTwo(current_time, speaker_id, duration) ==
    IF ~(current_time < duration) THEN <<>>
    ELSE LET end_time == IF current_time + segment_length < duration
                         THEN current_time + segment_length ELSE duration
             speaker  == IF speaker_id = 1 THEN "speaker_2" ELSE "speaker_1"
         IN  <<[speaker |-> speaker, start |-> current_time, end |-> end_time]>>
                 \o FallbackSegmentsFromTwo(end_time,
                                            IF speaker_id = 1 THEN 2 ELSE 1,
                                            duration)

\* the windows of the fallback without the min of line 121
RECURSIVE FallbackSegmentsUnclipped(_, _, _)
FallbackSegmentsUnclipped(current_time, speaker_id, duration) ==
    IF ~(current_time < duration) THEN <<>>
    ELSE LET end_time == current_time + segment_length
             speaker  == IF speaker_id = 1 THEN "speaker_1" ELSE "speaker_2"
         IN  <<[speaker |-> speaker, start |-> current_time, end |-> end_time]>>
                 \o FallbackSegmentsUnclipped(end_time,
                                              IF speaker_id = 1 THEN 2 ELSE 1,
                                              duration)

\* lines 115-124: the windows of the fallback, speakers 1 and 2 in turn
RECURSIVE FallbackSegments(_, _, _)
FallbackSegments(current_time, speaker_id, duration) ==
    IF ~(current_time < duration) THEN <<>>
    ELSE LET end_time == IF current_time + segment_length < duration
                         THEN current_time + segment_length ELSE duration
             speaker  == IF speaker_id = 1 THEN "speaker_1" ELSE "speaker_2"
         IN  <<[speaker |-> speaker, start |-> current_time, end |-> end_time]>>
                 \o FallbackSegments(end_time, IF speaker_id = 1 THEN 2 ELSE 1,
                                     duration)

\* A dict of speaker id -> list of (start, end) is a sequence of entries in
\* insertion order.  Lines 127-131 and 139-144: append (start, end) to the
\* list of speaker, which is created at the end of the dict when it is missing.
AddSegment(speaker_segments, speaker, start, end) ==
    IF \E i \in 1..Len(speaker_segments) : speaker_segments[i].id = speaker
    THEN [i \in 1..Len(speaker_segments) |->
            IF speaker_segments[i].id = speaker
            THEN [speaker_segments[i] EXCEPT
                    !.segments = Append(@, [start |-> start, end |-> end])]
            ELSE speaker_segments[i]]
    ELSE Append(speaker_segments,
                [id |-> speaker, segments |-> <<[start |-> start, end |-> end]>>])

RECURSIVE GroupBySpeaker(_)
GroupBySpeaker(segments) ==
    IF segments = <<>> THEN <<>>
    ELSE LET last == segments[Len(segments)]
         IN  AddSegment(GroupBySpeaker(SubSeq(segments, 1, Len(segments) - 1)),
                        last.speaker, last.start, last.end)

\* line 141: f"speaker_{speaker.split('_')[-1] if '_' in speaker else speaker}"
SpeakerId(label) == "speaker_" \o label[Len(label)]

\* line 151: {"speaker_1": [(0.0, 999999.0)]}
SingleSpeaker ==
    <<[id |-> "speaker_1", segments |-> <<[start |-> 0, end |-> 999999 * Milli]>>]>>

\* perform_diarization, lines 96-151, when the audio can be loaded
perform_diarization(duration, diarization) ==
    IF diarization.kind = "unloaded"
    THEN GroupBySpeaker(FallbackSegments(0, 1, duration))
    ELSE IF diarization.kind = "raises"
    THEN SingleSpeaker
    ELSE GroupBySpeaker([i \in 1..Len(diarization.turns) |->
                           [speaker |-> SpeakerId(diarization.turns[i].label),
                            start   |-> diarization.turns[i].start,
                            end     |-> diarization.turns[i].end]])

\* whisper_result.get("segments", [])
SegmentsOf(whisper_result) ==
    IF whisper_result.segments = Null THEN <<>> ELSE whisper_result.segments[1]

RECURSIVE Flatten(_)
Flatten(seqs) == IF seqs = <<>> THEN <<>> ELSE Head(seqs) \o Flatten(Tail(seqs))

\* lines 169-172: the entries of the "words" lists of the segments that have
\* one
TimedWords(segments) ==
    Flatten([i \in 1..Len(segments) |->
               IF segments[i].words = Null THEN <<>>
               ELSE [j \in 1..Len(segments[i].words[1]) |->
                       LET w == segments[i].words[1][j]
                       IN  [word |-> w.word, start |-> Time(w.start, 1),
                            end |-> Time(w.end, 1)]]])

\* lines 177-188 for one segment: its tokens, each with an equal share of the
\* segment's span
SplitEvenly(segment) ==
    LET words            == Split(segment.text)
        n                == Len(words)
        segment_duration == segment.end - segment.start
    IN  [k \in 1..n |->
           [word  |-> <<words[k]>>,
            start |-> Time(segment.start * n + (k - 1) * segment_duration, n),
            end   |-> Time(segment.start * n + k * segment_duration, n)]]

\* assign_speakers_to_words never synthesizing words from the segments
AllWordsTimedOnly(whisper_result) == TimedWords(SegmentsOf(whisper_result))

\* lines 168-188: the words synthesized from the segments are used only when
\* no segment has given a word
AllWords(whisper_result) ==
    LET segments  == SegmentsOf(whisper_result)
        all_words == TimedWords(segments)
    IN  IF all_words # <<>> THEN all_words
        ELSE Flatten([i \in 1..Len(segments) |-> SplitEvenly(segments[i])])

\* the word's start taken for its midpoint
word_mid_is_start(word_start, word_end) == word_start

\* line 194: (word_start + word_end) / 2
word_mid(word_start, word_end) ==
    Time(word_start.n * word_end.d + word_end.n * word_start.d,
         2 * word_start.d * word_end.d)

\* line 201: seg_start <= word_mid <= seg_end, the bounds of a segment being
\* whole milliseconds
InSegment(segment, mid) ==
    LET whole == mid.n \div mid.d
    IN  /\ segment.start <= whole
        /\ whole < segment.end \/ (whole = segment.end /\ mid.n % mid.d = 0)

\* Lines 197-205 from the i-th speaker of the dict on.  The inner loop stops
\* at the speaker's first segment that holds the midpoint; the outer loop
\* stops once assigned_speaker differs from "speaker_1".
RECURSIVE ScanSpeakers(_, _, _, _)
ScanSpeakers(speaker_segments, i, mid, assigned_speaker) ==
    IF i > Len(speaker_segments) THEN assigned_speaker
    ELSE LET segments == speaker_segments[i].segments
             found    == \E k \in 1..Len(segments) : InSegment(segments[k], mid)
             assigned == IF found THEN speaker_segments[i].id
                         ELSE assigned_speaker
         IN  IF assigned # "speaker_1" THEN assigned
             ELSE ScanSpeakers(speaker_segments, i + 1, mid, assigned)

\* assign_speakers_to_words, lines 153-215
assign_speakers_to_words(whisper_result, speaker_segments) ==
    LET all_words == AllWords(whisper_result)
    IN  [i \in 1..Len(all_words) |->
           LET word_info == all_words[i]
           IN  [word    |-> Strip(word_info.word),
                start   |-> Round2(word_info.start),
                end     |-> Round2(word_info.end),
                speaker |-> ScanSpeakers(speaker_segments, 1,
                                         word_mid(word_info.start, word_info.end),
                                         "speaker_1")]]

\* lines 229-235 with the time of a word replacing the speaker's time
AddTimeOverwrites(speaker_times, speaker, duration) ==
    IF \E i \in 1..Len(speaker_times) : speaker_times[i].id = speaker
    THEN [i \in 1..Len(speaker_times) |->
            IF speaker_times[i].id = speaker
            THEN [speaker_times[i] EXCEPT !.total_time = duration]
            ELSE speaker_times[i]]
    ELSE Append(speaker_times, [id |-> speaker, total_time |-> duration])

\* lines 233-235: speaker_times[speaker] += duration, the key created at the
\* end of the dict when it is missing
AddTime(speaker_times, speaker, duration) ==
    IF \E i \in 1..Len(speaker_times) : speaker_times[i].id = speaker
    THEN [i \in 1..Len(speaker_times) |->
            IF speaker_times[i].id = speaker
            THEN [speaker_times[i] EXCEPT !.total_time = @ + duration]
            ELSE speaker_times[i]]
    ELSE Append(speaker_times, [id |-> speaker, total_time |-> duration])

\* lines 227-235, over words in hundredths
RECURSIVE SpeakerTimes(_)
SpeakerTimes(transcript_words) ==
    IF transcript_words = <<>> THEN <<>>
    ELSE LET n    == Len(transcript_words)
             word == transcript_words[n]
         IN  AddTime(SpeakerTimes(SubSeq(transcript_words, 1, n - 1)),
                     word.speaker, word.end - word.start)

\* rows in descending order of keys, rows with equal keys in their given
\* order: list.sort(key=..., reverse=True)
SortDescending(rows, keys) ==
    LET n == Len(rows)
        pos(i) == 1 + Cardinality({j \in 1..n : \/ keys[j] > keys[i]
                                                \/ keys[j] = keys[i] /\ j < i})
    IN  [p \in 1..n |-> rows[CHOOSE i \in 1..n : pos(i) = p]]

\* calculate_speaker_stats, lines 217-247; a total in hundredths is the time
\* 10 * total milliseconds
calculate_speaker_stats(transcript_words) ==
    LET speaker_times == SpeakerTimes(transcript_words)
        speakers == [i \in 1..Len(speaker_times) |->
                       [id        |-> speaker_times[i].id,
                        total_sec |-> Round2(Time((Milli \div 100)
                                                    * speaker_times[i].total_time, 1))]]
    IN  SortDescending(speakers,
                       [i \in 1..Len(speakers) |-> speakers[i].total_sec])

RECURSIVE SumSeq(_)
SumSeq(numbers) ==
    IF numbers = <<>> THEN 0 ELSE Head(numbers) + SumSeq(Tail(numbers))

\* line 266: max(0.0, min(1.0, np.exp(avg_logprob))), in thousandths
Clip(prob) == IF prob < 0 THEN 0 ELSE IF prob > Milli THEN Milli ELSE prob

\* calculate_confidence, lines 249-272, in hundredths
calculate_confidence(whisper_result) ==
    IF whisper_result.segments = Null THEN 85
    ELSE LET with_prob == SelectSeq(whisper_result.segments[1],
                                    LAMBDA segment : segment.avg_prob # Null)
             segment_confidences ==
                 [i \in 1..Len(with_prob) |-> Clip(with_prob[i].avg_prob[1])]
         IN  IF segment_confidences # <<>>
             THEN RoundHalfEven(SumSeq(segment_confidences),
                                (Milli \div 100) * Len(segment_confidences))
             ELSE 85

\* lines 306-316: the result object
BuildResult(duration, whisper_result, transcript_words, speakers) ==
    [language     |-> IF whisper_result.language = Null THEN "en"
                      ELSE whisper_result.language[1],
     duration_sec |-> Round2(Time(duration, 1)),
     transcript   |-> transcript_words,
     speakers     |-> speakers,
     confidence   |-> calculate_confidence(whisper_result)]

\* process_audio, lines 274-327, when no engine raises
process_audio(recording) ==
    LET speaker_segments == perform_diarization(recording.duration,
                                                recording.diarization)
        transcript_words == assign_speakers_to_words(recording.whisper,
                                                     speaker_segments)
    IN  BuildResult(recording.duration, recording.whisper, transcript_words,
                    calculate_speaker_stats(transcript_words))

\* pc: the step of process_audio to make; the other fields are its locals
NoPipe == [pc |-> "idle", duration |-> 0, whisper_result |-> Null,
           speaker_segments |-> <<>>, transcript_words |-> <<>>,
           speakers |-> <<>>, result |-> Null]

\* the recording of the specifications that do not look into the pipeline
NoAudio == [duration |-> 0, whisper |-> [language |-> Null, segments |-> Null],
            diarization |-> [kind |-> "unloaded", turns |-> <<>>]]

\* line 289 (ok = FALSE: librosa.load raises)
pa_load_audio ==
    /\ pipe.pc = "load_audio"
    /\ \E ok \in BOOLEAN :
         pipe' = IF ok
                 THEN [pipe EXCEPT !.pc = "transcribe", !.duration = audio.duration]
                 ELSE [pipe EXCEPT !.pc = "raised"]
    /\ UNCHANGED <<audio, getters, rerun>>
    /\ UNCHANGED <<jobVars, rlVars, obsVars>>

\* line 292 (ok = FALSE: whisper_model.transcribe raises)
pa_transcribe_with_whisper ==
    /\ pipe.pc = "transcribe"
    /\ \E ok \in BOOLEAN :
         pipe' = IF ok
                 THEN [pipe EXCEPT !.pc = "diarize",
                                   !.whisper_result = Some(audio.whisper)]
                 ELSE [pipe EXCEPT !.pc = "raised"]
    /\ UNCHANGED <<audio, getters, rerun>>
    /\ UNCHANGED <<jobVars, rlVars, obsVars>>

\* line 295.  Without a pipeline the fallback loads the audio again, outside
\* any try block (ok = FALSE: that load raises); an exception of the pipeline
\* itself is caught inside perform_diarization.
pa_perform_diarization ==
    /\ pipe.pc = "diarize"
    /\ \E ok \in BOOLEAN :
         pipe' = IF audio.diarization.kind = "unloaded" /\ ~ok
                 THEN [pipe EXCEPT !.pc = "raised"]
                 ELSE [pipe EXCEPT
                         !.pc = "assign",
                         !.speaker_segments =
                             perform_diarization(pipe.duration, audio.diarization)]
    /\ UNCHANGED <<audio, getters, rerun>>
    /\ UNCHANGED <<jobVars, rlVars, obsVars>>

\* line 298
pa_assign_speakers_to_words ==
    /\ pipe.pc = "assign"
    /\ pipe' = [pipe EXCEPT
                  !.pc = "stats",
                  !.transcript_words =
                      assign_speakers_to_words(pipe.whisper_result[1],
                                               pipe.speaker_segments)]
    /\ UNCHANGED <<audio, getters, rerun>>
    /\ UNCHANGED <<jobVars, rlVars, obsVars>>

\* line 301
pa_calculate_speaker_stats ==
    /\ pipe.pc = "stats"
    /\ pipe' = [pipe EXCEPT
                  !.pc = "result",
                  !.speakers = calculate_speaker_stats(pipe.transcript_words)]
    /\ UNCHANGED <<audio, getters, rerun>>
    /\ UNCHANGED <<jobVars, rlVars, obsVars>>

\* lines 304-327
pa_return_result ==
    /\ pipe.pc = "result"
    /\ pipe' = [pipe EXCEPT
                  !.pc = "done",
                  !.result = Some(BuildResult(pipe.duration, pipe.whisper_result[1],
                                              pipe.transcript_words,
                                              pipe.speakers))]
    /\ UNCHANGED <<audio, getters, rerun>>
    /\ UNCHANGED <<jobVars, rlVars, obsVars>>

(***************************************************************************)
(* The specification of the pipeline: one call of process_audio on each    *)
(* recording of AudioInputs.                                               *)
(***************************************************************************)
InitAT ==
    /\ config = [use_celery |-> TRUE, redis_client |-> TRUE]
    /\ audioResult = ResultOneSpeaker
    /\ sessions = <<>>
    /\ wordRows = <<>>
    /\ speakerRows = <<>>
    /\ request = NoRequest
    /\ broker = [sent |-> 0, delivered |-> 0]
    /\ run = IdleRun
    /\ transcriber = Null
    /\ taskState = NoTaskState
    /\ pipelineRuns = 0
    /\ now = 0
    /\ ticks = 0
    /\ zsets = [k \in Keys |-> EmptyZset]
    /\ calls = <<>>
    /\ statusReply = NoReply
    /\ stream = NoStream
    /\ passed = {}
    /\ audio \in AudioInputs
    /\ pipe = [NoPipe EXCEPT !.pc = "load_audio"]
    /\ getters = NoGetters
    /\ rerun = Null

NextAT ==
    \/ pa_load_audio
    \/ pa_transcribe_with_whisper
    \/ pa_perform_diarization
    \/ pa_assign_speakers_to_words
    \/ pa_calculate_speaker_stats
    \/ pa_return_result

SpecAT == InitAT /\ [][NextAT]_vars

(***************************************************************************)
(* The specification of the job's life.                                    *)
(***************************************************************************)
\* The submission arrives max_requests seconds after the clock's origin, from
\* a caller that has made no call yet or has used its quota up.
Init ==
    /\ config \in [use_celery : BOOLEAN, redis_client : BOOLEAN]
    /\ audioResult \in Results
    /\ sessions = <<>>
    /\ wordRows = <<>>
    /\ speakerRows = <<>>
    /\ request = NoRequest
    /\ broker = [sent |-> 0, delivered |-> 0]
    /\ run = IdleRun
    /\ transcriber = Null
    /\ taskState = NoTaskState
    /\ pipelineRuns = 0
    /\ now = max_requests
    /\ ticks = 0
    /\ \E z \in {EmptyZset, QuotaUsed} :
         zsets = [k \in Keys |-> IF k = RateKey(Owner, "ip1") THEN z ELSE EmptyZset]
    /\ calls = <<>>
    /\ statusReply = NoReply
    /\ stream = NoStream
    /\ passed = {}
    /\ audio = NoAudio
    /\ pipe = NoPipe
    /\ getters = NoGetters
    /\ rerun = Null

Next ==
    \/ create_transcription_task
    \/ dispatch_task
    \/ deliver
    \/ rt_get
    \/ rt_commit_processing
    \/ rt_update_state_10
    \/ rt_get_transcriber
    \/ rt_commit_20
    \/ rt_update_state_20
    \/ rt_process_audio
    \/ rt_commit_80
    \/ rt_update_state_80
    \/ rt_save
    \/ rt_commit_completed
    \/ rt_update_state_success
    \/ rt_except
    \/ rt_reraise

Spec == Init /\ [][Next]_vars

(***************************************************************************)
(* The specification of the rate limiter: calls of check_rate_limit by the *)
(* callers of Keys, while the clock advances.                              *)
(***************************************************************************)
\* time passes: at most maxTicks times, by one of steps
Tick(maxTicks, steps) ==
    /\ ticks < maxTicks
    /\ \E d \in steps : now' = now + d
    /\ ticks' = ticks + 1
    /\ UNCHANGED <<zsets, calls>>
    /\ UNCHANGED jobVars
    /\ UNCHANGED obsVars
    /\ UNCHANGED atVars

tick == Tick(MaxTicks, TickSteps)

RedisFailures == Cardinality({i \in 1..Len(calls) : calls[i].degraded})

\* the limiter keeping the requests of every caller in one sorted set
RateLimitCallSharedSet(keys, maxCalls, canFail) ==
    /\ Len(calls) < maxCalls
    /\ \E key \in keys, redisOk \in BOOLEAN :
         LET shared == RateKey("u1", "ip1")
             rl     == check_rate_limit(zsets[shared], now, redisOk)
         IN  /\ redisOk \/ (canFail /\ RedisFailures < MaxRedisFailures)
             /\ zsets' = [zsets EXCEPT ![shared] = rl.zset]
             /\ calls' = Append(calls, [key |-> key, t |-> now,
                                        allowed |-> rl.allowed,
                                        degraded |-> rl.degraded])
    /\ UNCHANGED <<now, ticks>>
    /\ UNCHANGED jobVars
    /\ UNCHANGED obsVars
    /\ UNCHANGED atVars

\* await rate_limiter.check_rate_limit(key), rate_limiter.py lines 16-57, by a
\* caller of keys; canFail: Redis may raise in this call
RateLimitCall(keys, maxCalls, canFail) ==
    /\ Len(calls) < maxCalls
    /\ \E key \in keys, redisOk \in BOOLEAN :
         LET rl == check_rate_limit(zsets[key], now, redisOk)
         IN  /\ redisOk \/ (canFail /\ RedisFailures < MaxRedisFailures)
             /\ zsets' = [zsets EXCEPT ![key] = rl.zset]
             /\ calls' = Append(calls, [key |-> key, t |-> now,
                                        allowed |-> rl.allowed,
                                        degraded |-> rl.degraded])
    /\ UNCHANGED <<now, ticks>>
    /\ UNCHANGED jobVars
    /\ UNCHANGED obsVars
    /\ UNCHANGED atVars

rate_limit_call == RateLimitCall(Keys, MaxCalls, TRUE)

InitRL ==
    /\ config = [use_celery |-> TRUE, redis_client |-> TRUE]
    /\ audioResult = ResultOneSpeaker
    /\ sessions = <<>>
    /\ wordRows = <<>>
    /\ speakerRows = <<>>
    /\ request = NoRequest
    /\ broker = [sent |-> 0, delivered |-> 0]
    /\ run = IdleRun
    /\ transcriber = Null
    /\ taskState = NoTaskState
    /\ pipelineRuns = 0
    /\ now = 0
    /\ ticks = 0
    /\ zsets = [k \in Keys |-> EmptyZset]
    /\ calls = <<>>
    /\ statusReply = NoReply
    /\ stream = NoStream
    /\ passed = {}
    /\ audio = NoAudio
    /\ pipe = NoPipe
    /\ getters = NoGetters
    /\ rerun = Null

NextRL == tick \/ rate_limit_call

SpecRL == InitRL /\ [][NextRL]_vars

(***************************************************************************)
(* The specification of the rate limiter after one caller has used its     *)
(* quota up: the calls of all callers from then on, while Redis answers.   *)
(***************************************************************************)
\* the clock advances by a second, or to the end of a window less the
\* seconds the quota took
LaterSteps == {1, window_seconds - max_requests}

later_tick == Tick(MaxLaterTicks, LaterSteps)

later_call == RateLimitCall(Keys, max_requests + MaxLaterCalls, FALSE)

InitWin ==
    /\ config = [use_celery |-> TRUE, redis_client |-> TRUE]
    /\ audioResult = ResultOneSpeaker
    /\ sessions = <<>>
    /\ wordRows = <<>>
    /\ speakerRows = <<>>
    /\ request = NoRequest
    /\ broker = [sent |-> 0, delivered |-> 0]
    /\ run = IdleRun
    /\ transcriber = Null
    /\ taskState = NoTaskState
    /\ pipelineRuns = 0
    /\ now = max_requests
    /\ ticks = 0
    /\ zsets = [k \in Keys |-> IF k = RateKey(Owner, "ip1")
                               THEN QuotaUsed ELSE EmptyZset]
    /\ calls = [n \in 1..max_requests |-> EarlyCall(RateKey(Owner, "ip1"), n)]
    /\ statusReply = NoReply
    /\ stream = NoStream
    /\ passed = {}
    /\ audio = NoAudio
    /\ pipe = NoPipe
    /\ getters = NoGetters
    /\ rerun = Null

NextWin == later_tick \/ later_call

SpecWin == InitWin /\ [][NextWin]_vars

(***************************************************************************)
(* The specification of the observers: the job's life under the queued     *)
(* strategy, watched by one client, which either polls the status endpoint  *)
(* or opens the stream (the two handlers share no state but the tables     *)
(* they read).                                                             *)
(***************************************************************************)
InitObs ==
    /\ Init
    /\ config = [use_celery |-> TRUE, redis_client |-> TRUE]
    /\ audioResult = ResultTwoSpeakers
    /\ zsets = [k \in Keys |-> EmptyZset]

NextObs ==
    \/ Next
    \/ stream.pc = "none" /\ get_transcription_status
    \/ statusReply = NoReply /\ stream_transcription_progress
    \/ event_generator

SpecObs == InitObs /\ [][NextObs]_vars

(***************************************************************************)
(* The specification of the stored result: the job's life under the queued *)
(* strategy for recordings that process_audio turns into results of        *)
(* different shapes, and the owner's and others' reads of its status.      *)
(***************************************************************************)
\* recordings without a diarization pipeline: words in time order with a
\* confidence of 0.85, words with a confidence of 0.0, and segments that
\* Whisper returns out of time order; each 0, 10 or 60 seconds long
JobRecordings ==
    {a \in AudioInputs :
        /\ a.diarization.kind = "unloaded"
        /\ a.whisper.language = Some("fr")
        /\ a.whisper.segments \in {Some(<<SegHello>>), Some(<<SegLate>>),
                                    Some(<<SegLate, SegHello>>)}}

InitRes ==
    /\ config = [use_celery |-> TRUE, redis_client |-> TRUE]
    /\ audio \in JobRecordings
    /\ audioResult = process_audio(audio)
    /\ sessions = <<>>
    /\ wordRows = <<>>
    /\ speakerRows = <<>>
    /\ request = NoRequest
    /\ broker = [sent |-> 0, delivered |-> 0]
    /\ run = IdleRun
    /\ transcriber = Null
    /\ taskState = NoTaskState
    /\ pipelineRuns = 0
    /\ now = max_requests
    /\ ticks = 0
    /\ zsets = [k \in Keys |-> EmptyZset]
    /\ calls = <<>>
    /\ statusReply = NoReply
    /\ stream = NoStream
    /\ passed = {}
    /\ pipe = NoPipe
    /\ getters = NoGetters
    /\ rerun = Null

NextRes == Next \/ get_transcription_status

SpecRes == InitRes /\ [][NextRes]_vars

(***************************************************************************)
(* assign_speakers_to_words (src/test.py, lines 153-215) called twice with *)
(* the same two objects: the ASR output of a recording and the mapping     *)
(* perform_diarization built for it.  The function assigns to no key of    *)
(* either argument, and a dict yields its items in insertion order.        *)
(***************************************************************************)
Reverse(seq) == [i \in 1..Len(seq) |-> seq[Len(seq) + 1 - i]]

\* the first call
aw_first ==
    /\ pipe.pc = "first"
    /\ pipe' = [pipe EXCEPT
                  !.pc = "second",
                  !.transcript_words =
                      assign_speakers_to_words(pipe.whisper_result[1],
                                               pipe.speaker_segments)]
    /\ UNCHANGED <<jobVars, rlVars, obsVars, audio, getters, rerun>>

\* a second call that gets the items of the mapping in the opposite order
aw_second_other_order ==
    /\ pipe.pc = "second"
    /\ pipe' = [pipe EXCEPT !.pc = "twice"]
    /\ rerun' = Some(assign_speakers_to_words(pipe.whisper_result[1],
                                              Reverse(pipe.speaker_segments)))
    /\ UNCHANGED <<jobVars, rlVars, obsVars, audio, getters>>

\* the second call, on the arguments as the first call left them
aw_second ==
    /\ pipe.pc = "second"
    /\ pipe' = [pipe EXCEPT !.pc = "twice"]
    /\ rerun' = Some(assign_speakers_to_words(pipe.whisper_result[1],
                                              pipe.speaker_segments))
    /\ UNCHANGED <<jobVars, rlVars, obsVars, audio, getters>>

InitTwice ==
    /\ config = [use_celery |-> TRUE, redis_client |-> TRUE]
    /\ audioResult = ResultOneSpeaker
    /\ sessions = <<>>
    /\ wordRows = <<>>
    /\ speakerRows = <<>>
    /\ request = NoRequest
    /\ broker = [sent |-> 0, delivered |-> 0]
    /\ run = IdleRun
    /\ transcriber = Null
    /\ taskState = NoTaskState
    /\ pipelineRuns = 0
    /\ now = 0
    /\ ticks = 0
    /\ zsets = [k \in Keys |-> EmptyZset]
    /\ calls = <<>>
    /\ statusReply = NoReply
    /\ stream = NoStream
    /\ passed = {}
    /\ audio \in AudioInputs
    /\ pipe = [NoPipe EXCEPT
                 !.pc = "first",
                 !.duration = audio.duration,
                 !.whisper_result = Some(audio.whisper),
                 !.speaker_segments = perform_diarization(audio.duration,
                                                          audio.diarization)]
    /\ getters = NoGetters
    /\ rerun = Null

NextTwice == aw_first \/ aw_second

SpecTwice == InitTwice /\ [][NextTwice]_vars

(***************************************************************************)
(* get_transcriber (app/tasks.py, lines 29-35) called by the jobs of one   *)
(* worker process that run in threads of their own: a pool of threads, or  *)
(* the in-process strategy of create_transcription_task.  A thread can be  *)
(* suspended between any two of the statements; the construction loads the *)
(* models from disk and takes seconds.                                     *)
(***************************************************************************)
\* the jobs whose call of get_transcriber constructed an AudioTranscriber
Constructors == {j \in Jobs : getters[j].made # Null}

\* line 32: if transcriber is None
gt_test(j) ==
    /\ getters[j].pc = "idle"
    /\ getters' = [getters EXCEPT ![j].pc = IF transcriber = Null
                                            THEN "construct" ELSE "return"]
    /\ UNCHANGED <<jobVars, rlVars, obsVars, audio, pipe, rerun>>

\* lines 33-34, right-hand side: AudioTranscriber(model_size=model_size),
\* which can raise (whisper.load_model)
gt_construct(j) ==
    /\ getters[j].pc = "construct"
    /\ \E ok \in BOOLEAN :
         getters' = IF ok
                    THEN [getters EXCEPT ![j].pc = "assign",
                                         ![j].made = Some(Cardinality(Constructors) + 1)]
                    ELSE [getters EXCEPT ![j].pc = "raised"]
    /\ UNCHANGED <<jobVars, rlVars, obsVars, audio, pipe, rerun>>

\* line 34, left-hand side: the global is bound to the new instance
gt_assign(j) ==
    /\ getters[j].pc = "assign"
    /\ transcriber' = getters[j].made
    /\ getters' = [getters EXCEPT ![j].pc = "return"]
    /\ UNCHANGED <<config, audioResult, sessions, wordRows, speakerRows, request,
                   broker, run, taskState, pipelineRuns>>
    /\ UNCHANGED <<rlVars, obsVars, audio, pipe, rerun>>

\* line 35: return transcriber, which reads the global again
gt_return(j) ==
    /\ getters[j].pc = "return"
    /\ getters' = [getters EXCEPT ![j].pc = "done", ![j].got = transcriber]
    /\ UNCHANGED <<jobVars, rlVars, obsVars, audio, pipe, rerun>>

InitGT ==
    /\ config = [use_celery |-> TRUE, redis_client |-> TRUE]
    /\ audioResult = ResultOneSpeaker
    /\ sessions = <<>>
    /\ wordRows = <<>>
    /\ speakerRows = <<>>
    /\ request = NoRequest
    /\ broker = [sent |-> 0, delivered |-> 0]
    /\ run = IdleRun
    /\ transcriber = Null
    /\ taskState = NoTaskState
    /\ pipelineRuns = 0
    /\ now = 0
    /\ ticks = 0
    /\ zsets = [k \in Keys |-> EmptyZset]
    /\ calls = <<>>
    /\ statusReply = NoReply
    /\ stream = NoStream
    /\ passed = {}
    /\ audio = NoAudio
    /\ pipe = NoPipe
    /\ getters = NoGetters
    /\ rerun = Null

NextGT ==
    \/ \E j \in Jobs : gt_test(j)
    \/ \E j \in Jobs : gt_construct(j)
    \/ \E j \in Jobs : gt_assign(j)
    \/ \E j \in Jobs : gt_return(j)

SpecGT == InitGT /\ [][NextGT]_vars

(***************************************************************************)
(* Properties of the job record.                                           *)
(***************************************************************************)
Terminal(status) == status \in {"completed", "failed"}

ResultFields(row) == <<row.language, row.duration_seconds, row.confidence_score>>

NoResult == <<Null, Null, Null>>

LegalTransitions == {<<"pending", "processing">>, <<"processing", "completed">>,
                     <<"processing", "failed">>}

\* the statements claim C6 is about: get_transcriber, process_audio,
\* save_transcription_results and the commits
PipelineSources == {"get_transcriber", "process_audio", "save", "commit"}

\* C1: once the job's status is completed or failed, no step changes it.
C1_TerminalNeverChanges ==
    [][(Exists(TaskId) /\ Terminal(Row.status))
          => sessions'[TaskId].status = Row.status]_vars

\* C2: every change of the job's status is pending->processing,
\* processing->completed or processing->failed.
C2_OnlyLegalTransitions ==
    [][(Exists(TaskId) /\ sessions'[TaskId].status # Row.status)
          => <<Row.status, sessions'[TaskId].status>> \in LegalTransitions]_vars

\* C3: the result fields are populated only when the status is completed and
\* the error message only when it is failed (so never both, and neither while
\* the job is pending or processing).
C3_ResultOrErrorOnlyWhenTerminal ==
    Exists(TaskId) =>
        /\ ResultFields(Row) # NoResult => Row.status = "completed"
        /\ Row.error_message # Null => Row.status = "failed"

\* C4: the stored progress is 100 exactly when the status is completed.
C4_ProgressHundredIffCompleted ==
    Exists(TaskId) => (Row.progress = 100 <=> Row.status = "completed")

\* C5: the stored progress of the job never decreases.
C5_ProgressNeverDecreases ==
    [][Exists(TaskId) => sessions'[TaskId].progress >= Row.progress]_vars

\* C6 as stated: when get_transcriber, process_audio, save_transcription_results
\* or a commit has raised, the execution ends with the job failed, a non-empty
\* error message taken from the exception, null result fields and the progress
\* stored before the error.
C6_PipelineErrorEndsFailed ==
    (run.pc \in {"update_state_failure", "raised"} /\ run.src \in PipelineSources)
        => /\ Row.status = "failed"
           /\ Row.error_message = run.exc
           /\ Row.error_message # Some("")
           /\ ResultFields(Row) = NoResult
           /\ Row.progress = run.stored

\* C6 as amended: when one of those statements has raised and the except
\* branch's own read and commit succeed, the record's status becomes failed, its
\* error message becomes str(e) (empty when the exception carries no message),
\* its progress stays the value stored before the error, and its result fields
\* are left as stored: null in the first execution of the job.
C6_FailureWriteKeepsProgress ==
    [][(/\ run.pc = "handler"
        /\ run.src \in PipelineSources
        /\ run'.pc = "update_state_failure"
        /\ run'.handlerOk)
          => /\ sessions'[TaskId].status = "failed"
             /\ sessions'[TaskId].error_message = run.exc
             /\ sessions'[TaskId].progress = run.stored
             /\ ResultFields(sessions'[TaskId]) = ResultFields(Row)
             /\ broker.delivered = 1 => ResultFields(sessions'[TaskId]) = NoResult]_vars

\* C6 witness: process_audio raised after the checkpoint 20 and the job was
\* marked failed with the exception's message.
C6_Witness ==
    /\ run.pc = "update_state_failure"
    /\ run.src = "process_audio"
    /\ run.handlerOk
    /\ run.exc = Some("boom")
    /\ Row.status = "failed"
    /\ Row.error_message = Some("boom")
    /\ Row.progress = 20

\* C7: after the pipeline has run for the job, however often the message was
\* delivered, the stored transcript and speaker rows are those of one run.
C7_RedeliveryStoresNoRowTwice ==
    pipelineRuns >= 1 =>
        /\ wordRows = WordRowsOf(TaskId, audioResult)
        /\ speakerRows = SpeakerRowsOf(TaskId, audioResult)

\* C8: for a submission that was answered with success the full pipeline runs
\* exactly once: never twice, and once when an execution has returned.
C8_PipelineExactlyOnce ==
    (request.pc = "returned" /\ request.code = 200)
        => /\ pipelineRuns <= 1
           /\ run.pc = "done" => pipelineRuns = 1

\* C9: under the inline strategy, as under the queued one, the submission
\* returns the job id with status pending.
C9_InlineSubmissionReturnsPending ==
    (request.pc = "returned" /\ request.dispatch = "thread")
        => (request.code = 200 /\ request.status = "pending")

(***************************************************************************)
(* Properties of the rate limiter.                                         *)
(***************************************************************************)
\* the calls up to the i-th that were allowed for its key inside the window
\* that ends with the i-th call
AllowedInWindow(i) ==
    {j \in 1..i : /\ calls[j].key = calls[i].key
                  /\ calls[j].allowed
                  /\ calls[j].t > calls[i].t - window_seconds}

\* C10: while Redis answers, no key is allowed more than max_requests calls
\* within one window of window_seconds.
C10_AtMostMaxPerWindow ==
    (\A i \in 1..Len(calls) : ~calls[i].degraded)
        => \A i \in 1..Len(calls) : Cardinality(AllowedInWindow(i)) <= max_requests

\* the calls before the i-th that were allowed for its key
AllowedBefore(i) ==
    {j \in 1..(i - 1) : calls[j].key = calls[i].key /\ calls[j].allowed}

\* C11: once a key's quota was used up by max_requests allowed calls, a call
\* made more than window_seconds after the last allowed call of the key is
\* allowed, however many denied calls were made in between.
C11_AllowedAfterWindow ==
    \A i \in 1..Len(calls) :
        (/\ Cardinality(AllowedBefore(i)) >= max_requests
         /\ \A j \in AllowedBefore(i) : calls[i].t > calls[j].t + window_seconds)
            => calls[i].allowed

\* C12: a submission made while Redis raises in check_rate_limit, or after
\* Redis was unreachable at startup (no limiter), is never answered 429: the
\* handler goes on to validate the input and create the job.
C12_FailOpen ==
    (/\ request.pc # "start"
     /\ \/ ~config.redis_client
        \/ calls # <<>> /\ calls[Len(calls)].degraded)
        => request.code # 429

\* C12 witness: the caller's quota is used up and Redis raises in the check:
\* the submission is admitted and its job record committed.
C12_Witness ==
    /\ request.pc = "committed"
    /\ calls # <<>>
    /\ calls[1].degraded
    /\ zsets[RateKey(Owner, "ip1")] = QuotaUsed
    /\ Exists(TaskId)

\* the sorted set of key after the first n calls, had the calls of every other
\* key not been made
RECURSIVE ReplayKey(_, _)
ReplayKey(key, n) ==
    IF n = 0 THEN EmptyZset
    ELSE IF calls[n].key # key THEN ReplayKey(key, n - 1)
    ELSE check_rate_limit(ReplayKey(key, n - 1), calls[n].t,
                          ~calls[n].degraded).zset

\* C13: the outcome of every call is the one its key's own earlier calls give:
\* the calls of other user ids, and of the same user id from another address,
\* change neither the outcome nor the sorted set of the key.
C13_KeyIsolation ==
    /\ \A i \in 1..Len(calls) :
          calls[i].allowed =
              check_rate_limit(ReplayKey(calls[i].key, i - 1), calls[i].t,
                               ~calls[i].degraded).allowed
    /\ \A key \in Keys : Stored(zsets[key], now) =
                             Stored(ReplayKey(key, Len(calls)), now)

\* C13 witness: u1 is denied at one address while u2 at that address and u1
\* at another address, calling in between, are allowed.
C13_Witness ==
    \E i, j, k \in 1..Len(calls) :
        /\ i < j /\ j < k
        /\ calls[i].key = RateKey("u2", "ip1") /\ calls[i].allowed
        /\ calls[j].key = RateKey("u1", "ip2") /\ calls[j].allowed
        /\ calls[k].key = RateKey("u1", "ip1") /\ ~calls[k].allowed

(***************************************************************************)
(* Properties of the submission and of the observers.                      *)
(***************************************************************************)
\* C14: a submission answered 429 (rate limit) or 400 (neither or both of file
\* and url, unsupported extension, oversized file) has created no job record,
\* sent no task to the queue and started no execution.
C14_RejectedCreatesNothing ==
    (request.pc = "returned" /\ request.code \in {429, 400})
        => /\ ~Exists(TaskId)
           /\ broker = [sent |-> 0, delivered |-> 0]
           /\ run = IdleRun
           /\ wordRows = <<>> /\ speakerRows = <<>>

\* C14 witness: the caller's quota is used up, Redis answers and the
\* submission is rejected with 429.
C14_Witness ==
    /\ request.pc = "returned"
    /\ request.code = 429
    /\ calls # <<>>
    /\ ~calls[1].allowed
    /\ sessions = <<>>

NoSnapshot(response) ==
    /\ response.status = Null /\ response.progress = Null
    /\ response.result = Null /\ response.error = Null

\* C15: get_transcription_status and stream_transcription_progress answer 404
\* for an unknown job id and 403 to a caller who is not the job's owner (500
\* when the lookup itself raises), with no snapshot and no event of the job;
\* and no status read and no step of a stream changes a job record or its
\* rows.
C15_ObserversReadOnly ==
    [][/\ (statusReply' # statusReply \/ stream' # stream)
            => /\ sessions' = sessions
               /\ wordRows' = wordRows
               /\ speakerRows' = speakerRows
       /\ statusReply' # statusReply
            => LET r == statusReply'
               IN  /\ ~Exists(r.task_id) => r.response.code \in {404, 500}
                   /\ (Exists(r.task_id) /\ sessions[r.task_id].user_id # r.user_id)
                         => r.response.code \in {403, 500}
                   /\ r.response.code # 200 => NoSnapshot(r.response)
       /\ (stream.pc = "none" /\ stream'.pc # "none")
            => LET st == stream'
               IN  /\ ~Exists(st.task_id)
                         => st.pc = "rejected" /\ st.code \in {404, 500}
                   /\ (Exists(st.task_id) /\ sessions[st.task_id].user_id # st.user_id)
                         => st.pc = "rejected" /\ st.code \in {403, 500}
                   /\ st.events = <<>>
       /\ stream.pc = "rejected" => stream' = stream]_vars

\* C15 witness: a caller who is not the owner has asked for the status of the
\* completed job and was answered 403 without a snapshot.
C15_Witness ==
    /\ Exists(TaskId)
    /\ Row.status = "completed"
    /\ statusReply.task_id = TaskId
    /\ statusReply.user_id # Row.user_id
    /\ statusReply.response.code = 403
    /\ NoSnapshot(statusReply.response)

\* C16 as stated: a request about a job that is not completed fails with a
\* not-ready error: only requests about a completed job are answered 200, and
\* these carry the result.
C16_NotCompletedIsAnError ==
    statusReply.response.code = 200
        => /\ statusReply.response.status = Some("completed")
           /\ statusReply.response.result # Null

\* C16 as amended: a request of the owner about a job that is not completed is
\* answered 200 with the status snapshot and no result; a response carries a
\* result only when the status read by that request is completed, and a 200
\* response about a completed job always carries it; a stream emits a result
\* event only right after its completed snapshot.
C16_ResultOnlyWhenCompleted ==
    /\ statusReply.response.result # Null
          => /\ statusReply.response.code = 200
             /\ statusReply.response.status = Some("completed")
    /\ (/\ statusReply.response.code = 200
        /\ statusReply.response.status = Some("completed"))
          => statusReply.response.result # Null
    /\ \A i \in 1..Len(stream.events) :
          stream.events[i].kind = "result"
              => /\ i > 1
                 /\ stream.events[i - 1].kind = "snapshot"
                 /\ stream.events[i - 1].status = Some("completed")

\* C16 witness: the owner asked while the job was processing and was answered
\* 200 with the snapshot and no result.
C16_Witness ==
    /\ statusReply.user_id = Owner
    /\ statusReply.response.code = 200
    /\ statusReply.response.status = Some("processing")
    /\ statusReply.response.progress = Some(20)
    /\ statusReply.response.result = Null

\* the statuses of the snapshots a stream has emitted
SnapshotStatuses ==
    {stream.events[i].status[1] :
        i \in {j \in 1..Len(stream.events) : stream.events[j].kind = "snapshot"}}

\* a stream that has emitted an error event
StreamFailed == \E i \in 1..Len(stream.events) : stream.events[i].kind = "error"

\* C17: when a stream has ended without a read error, every status the job
\* has had since the stream was opened is among its snapshots.
C17_EveryStatusAppears ==
    (stream.pc = "ended" /\ ~StreamFailed) => passed \subseteq SnapshotStatuses

\* an iteration of the stream's loop
PollStep == stream'.polls = stream.polls + 1

\* the events an iteration has emitted
NewEvents ==
    SubSeq(stream'.events, Len(stream.events) + 1, Len(stream'.events))

\* C18: every iteration of the stream's loop whose read does not raise reads
\* the status stored for the job at that time; so an iteration made when the
\* job is completed or failed ends the stream.
C18_PollReadsStoredStatus ==
    [][(PollStep /\ stream'.cached # Null)
          => /\ stream'.cached[1].status = Row.status
             /\ Terminal(Row.status) => stream'.pc = "ended"]_vars

\* C19 as stated: an iteration that emits the completed snapshot emits exactly
\* one more event, the result, and ends the stream; an ended stream emits
\* nothing.
C19_CompletedThenResult ==
    [][/\ (/\ PollStep
           /\ NewEvents # <<>>
           /\ NewEvents[1].kind = "snapshot"
           /\ NewEvents[1].status = Some("completed"))
            => /\ Len(NewEvents) = 2
               /\ NewEvents[2].kind = "result"
               /\ stream'.pc = "ended"
       /\ stream.pc = "ended" => stream' = stream]_vars

\* C19 as amended: an iteration that emits the completed snapshot emits exactly
\* one more event and ends the stream: the result that get_transcription_result
\* builds from the record object read and the stored rows or, when reading it
\* raises, an error event; an ended stream emits nothing.
C19_CompletedThenResultOrError ==
    [][/\ (/\ PollStep
           /\ NewEvents # <<>>
           /\ NewEvents[1].kind = "snapshot"
           /\ NewEvents[1].status = Some("completed"))
            => /\ Len(NewEvents) = 2
               /\ \/ NewEvents[2] = ResultEvent(ResultNow(stream'.cached[1], TaskId))
                  \/ NewEvents[2].kind = "error"
               /\ stream'.pc = "ended"
       /\ stream.pc = "ended" => stream' = stream]_vars

\* C19 witness: the stream has emitted the completed snapshot and then the
\* result with both words and both speakers, and has ended.
C19_Witness ==
    /\ stream.pc = "ended"
    /\ Len(stream.events) = 2
    /\ stream.events[1].kind = "snapshot"
    /\ stream.events[1].status = Some("completed")
    /\ stream.events[1].progress = Some(100)
    /\ stream.events[2].kind = "result"
    /\ stream.events[2].result[1].language = "fr"
    /\ Len(stream.events[2].result[1].transcript) = 2
    /\ Len(stream.events[2].result[1].speakers) = 2

\* C20: the status response about a failed job carries the job's error
\* message, and an iteration of the stream made when the job is failed emits,
\* unless its read raises, the failed snapshot with that message and ends the
\* stream.
C20_FailedCarriesMessage ==
    [][/\ (/\ statusReply' # statusReply
           /\ statusReply'.response.status = Some("failed"))
            => /\ Row.error_message # Null
               /\ statusReply'.response.error = Some(Row.error_message)
       /\ (/\ PollStep
           /\ Row.status = "failed"
           /\ ~(NewEvents # <<>> /\ NewEvents[Len(NewEvents)].kind = "error"))
            => /\ Len(NewEvents) = 1
               /\ NewEvents[1].kind = "snapshot"
               /\ NewEvents[1].status = Some("failed")
               /\ NewEvents[1].error = Row.error_message
               /\ stream'.pc = "ended"]_vars

(***************************************************************************)
(* Properties of what the observers see over time.                         *)
(***************************************************************************)
\* the place of a status in the order pending, processing, terminal
StatusRank(status) ==
    IF status = "pending" THEN 0 ELSE IF status = "processing" THEN 1 ELSE 2

\* the snapshot events among the events of the stream
SnapshotsOf(events) == SelectSeq(events, LAMBDA e : e.kind = "snapshot")

\* C21: what an observer sees in successive reads never goes backward: of two
\* successive status responses about the job, and of two snapshots of a
\* stream, the later has a status no earlier in the order pending, processing,
\* terminal, and a progress no lower.
C21_ObserversNeverGoBackward ==
    [][/\ (/\ statusReply' # statusReply
           /\ statusReply.task_id = statusReply'.task_id
           /\ statusReply.response.code = 200
           /\ statusReply'.response.code = 200)
            => /\ StatusRank(statusReply'.response.status[1])
                      >= StatusRank(statusReply.response.status[1])
               /\ statusReply'.response.progress[1]
                      >= statusReply.response.progress[1]
       /\ LET snapshots == SnapshotsOf(stream'.events)
          IN  \A i, j \in 1..Len(snapshots) :
                  i < j => /\ StatusRank(snapshots[j].status[1])
                                  >= StatusRank(snapshots[i].status[1])
                           /\ snapshots[j].progress[1] >= snapshots[i].progress[1]]_vars

(***************************************************************************)
(* Properties of the pipeline.                                             *)
(***************************************************************************)
\* the segmentation of the fallback: speakers 1 and 2 in turn over windows of
\* segment_length that span the recording
FallbackSegmentation(duration) ==
    perform_diarization(duration, [kind |-> "unloaded", turns |-> <<>>])

\* C22: when the diarization pipeline raises, process_audio goes on (the
\* exception does not leave perform_diarization), and the words are labelled
\* from the fallback segmentation, the two-speaker alternation over windows of
\* 30 seconds.
C22_ThrowUsesAlternation ==
    [][audio.diarization.kind = "raises"
          => /\ pipe.pc = "diarize" => pipe'.pc = "assign"
             /\ pipe.pc = "assign"
                  => pipe'.transcript_words =
                         assign_speakers_to_words(
                             pipe.whisper_result[1],
                             FallbackSegmentation(pipe.duration))]_vars

(***************************************************************************)
(* Properties of the stored result.                                        *)
(***************************************************************************)
\* C23: the result that get_transcription_result rebuilds from storage for a
\* status response is the result object process_audio computed for the job:
\* language, duration_sec, the transcript and the speakers in their order,
\* and confidence.
C23_RebuiltResultIsComputedResult ==
    statusReply.response.result # Null
        => statusReply.response.result[1] = audioResult

\* process_audio has assigned the speakers of the words
Assigned == pipe.pc \in {"stats", "result", "done"}

\* the words that were given to the assignment, with their unrounded times
InputWords == AllWords(pipe.whisper_result[1])

\* the midpoint of an input word
Midpoint(w) == Time(w.start.n * w.end.d + w.end.n * w.start.d,
                    2 * w.start.d * w.end.d)

\* start < mid < end
StrictlyInside(segment, mid) ==
    LET whole == mid.n \div mid.d
    IN  /\ segment.start < whole \/ (segment.start = whole /\ mid.n % mid.d # 0)
        /\ whole < segment.end

\* the intervals <<speaker, k>> of the segmentation that hold the midpoint of
\* w, bounds included, and those that hold it strictly inside
Holders(w) ==
    UNION {{<<i, k>> : k \in {k \in 1..Len(pipe.speaker_segments[i].segments) :
                                InSegment(pipe.speaker_segments[i].segments[k],
                                          Midpoint(w))}} :
           i \in 1..Len(pipe.speaker_segments)}

StrictHolders(w) ==
    {h \in Holders(w) :
        StrictlyInside(pipe.speaker_segments[h[1]].segments[h[2]], Midpoint(w))}

OwnerOf(h) == pipe.speaker_segments[h[1]].id

\* C24 as stated: a word whose midpoint lies strictly inside exactly one
\* interval has the label of that interval's speaker; a word whose midpoint
\* no interval holds has the label speaker_1.
C24_StrictlyInsideOneInterval ==
    Assigned =>
        \A n \in 1..Len(InputWords) :
            LET w == InputWords[n]
            IN  /\ Cardinality(StrictHolders(w)) = 1
                     => \A h \in StrictHolders(w) :
                            pipe.transcript_words[n].speaker = OwnerOf(h)
                /\ Holders(w) = {} => pipe.transcript_words[n].speaker = "speaker_1"

\* C24 as amended: a word whose midpoint exactly one interval holds, bounds
\* included, has the label of that interval's speaker, whichever speaker it is
\* and wherever it stands among the speakers; a word whose midpoint no
\* interval holds has the label speaker_1.
C24_HeldByOneInterval ==
    Assigned =>
        \A n \in 1..Len(InputWords) :
            LET w == InputWords[n]
            IN  /\ Cardinality(Holders(w)) = 1
                     => \A h \in Holders(w) :
                            pipe.transcript_words[n].speaker = OwnerOf(h)
                /\ Holders(w) = {} => pipe.transcript_words[n].speaker = "speaker_1"

\* C24 witness: with speaker_00 before speaker_01 in the segmentation, a word
\* is held by one interval only, of speaker_01 and on its bound, and carries
\* that label, and another word is held by none and carries speaker_1.
C24_Witness ==
    /\ Assigned
    /\ Len(pipe.speaker_segments) = 2
    /\ pipe.speaker_segments[1].id = "speaker_00"
    /\ \E n, m \in 1..Len(InputWords) :
          /\ Holders(InputWords[n]) = {<<2, 1>>}
          /\ StrictHolders(InputWords[n]) = {}
          /\ pipe.transcript_words[n].speaker = "speaker_01"
          /\ Holders(InputWords[m]) = {}
          /\ pipe.transcript_words[m].speaker = "speaker_1"

\* a segment without word-level timestamps: no "words" key, or an empty list
NoEntries(segment) == segment.words = Null \/ segment.words[1] = <<>>

\* the word-level entries of a segment, stripped and rounded
EntriesOf(segment) ==
    IF segment.words = Null THEN <<>>
    ELSE [j \in 1..Len(segment.words[1]) |->
            [word  |-> Strip(segment.words[1][j].word),
             start |-> Round2(Time(segment.words[1][j].start, 1)),
             end   |-> Round2(Time(segment.words[1][j].end, 1))]]

\* the whitespace-delimited tokens of a segment, token k of n spanning
\* start + (k - 1) * d to start + k * d with d = (end - start) / n, rounded
TokensOf(segment) ==
    LET tokens == Split(segment.text)
        n      == Len(tokens)
    IN  [k \in 1..n |->
           [word  |-> tokens[k],
            start |-> Round2(Time(segment.start * n
                                    + (k - 1) * (segment.end - segment.start), n)),
            end   |-> Round2(Time(segment.start * n
                                    + k * (segment.end - segment.start), n))]]

\* the transcript has the words, starts and ends of expected, in that order
SameWords(transcript_words, expected) ==
    /\ Len(transcript_words) = Len(expected)
    /\ \A n \in 1..Len(expected) :
          /\ transcript_words[n].word = expected[n].word
          /\ transcript_words[n].start = expected[n].start
          /\ transcript_words[n].end = expected[n].end

\* C25 as stated: assign_speakers_to_words returns one annotated word for
\* every word of every segment, in the order of the segments: the segment's
\* word-level entries or, for a segment without them, its whitespace-delimited
\* tokens with the segment's span divided evenly; no token is dropped.
C25_OneWordPerInputWord ==
    Assigned =>
        LET segments == SegmentsOf(pipe.whisper_result[1])
        IN  SameWords(pipe.transcript_words,
                      Flatten([i \in 1..Len(segments) |->
                                 IF NoEntries(segments[i])
                                 THEN TokensOf(segments[i])
                                 ELSE EntriesOf(segments[i])]))

\* C25 as amended: when some segment has word-level entries, the annotated
\* words are these entries, one for one and in their order, and a segment
\* without entries gives no word; when no segment has any, they are the
\* tokens of all segments, in order, each segment's span divided evenly.
C25_EntriesOrElseTokens ==
    Assigned =>
        LET segments == SegmentsOf(pipe.whisper_result[1])
        IN  SameWords(pipe.transcript_words,
                      IF \E i \in 1..Len(segments) : ~NoEntries(segments[i])
                      THEN Flatten([i \in 1..Len(segments) |-> EntriesOf(segments[i])])
                      ELSE Flatten([i \in 1..Len(segments) |-> TokensOf(segments[i])]))

\* C25 witness: no segment has word-level entries, and the three tokens of a
\* segment of ten seconds and the token of a segment with an empty word list
\* have become four words, the second from 3.33 s to 6.67 s.
C25_Witness ==
    /\ Assigned
    /\ SegmentsOf(pipe.whisper_result[1]) = <<SegPlain, SegNoWords>>
    /\ Len(pipe.transcript_words) = 4
    /\ pipe.transcript_words[2].word = "b"
    /\ pipe.transcript_words[2].start = 333
    /\ pipe.transcript_words[2].end = 667
    /\ pipe.transcript_words[4].word = "eh"

\* process_audio has computed the speaker statistics
Summed == pipe.pc \in {"result", "done"}

\* the sum of end - start over the annotated words, in hundredths
WordSeconds(transcript_words) ==
    SumSeq([n \in 1..Len(transcript_words) |->
              transcript_words[n].end - transcript_words[n].start])

TotalSeconds(speakers) ==
    SumSeq([i \in 1..Len(speakers) |-> speakers[i].total_sec])

\* C26: the totals of the entries of calculate_speaker_stats add up to the sum
\* of end - start over the annotated words, within half a hundredth for each
\* entry (the rounding of its total), and every label that occurs in the words
\* has exactly one entry.
C26_TotalsAddUp ==
    Summed =>
        LET difference == TotalSeconds(pipe.speakers)
                              - WordSeconds(pipe.transcript_words)
        IN  /\ 2 * difference <= Len(pipe.speakers)
            /\ 2 * (0 - difference) <= Len(pipe.speakers)
            /\ \A n \in 1..Len(pipe.transcript_words) :
                  Cardinality({i \in 1..Len(pipe.speakers) :
                                 pipe.speakers[i].id
                                     = pipe.transcript_words[n].speaker}) = 1

\* C26 witness: four words of two speakers, three of them of one speaker, and
\* two entries whose totals add up to the seconds of the words.
C26_Witness ==
    /\ Summed
    /\ Len(pipe.transcript_words) = 4
    /\ Len(pipe.speakers) = 2
    /\ \E i \in 1..2 :
          Cardinality({n \in 1..4 : pipe.transcript_words[n].speaker
                                        = pipe.speakers[i].id}) = 3
    /\ WordSeconds(pipe.transcript_words) > 0
    /\ TotalSeconds(pipe.speakers) = WordSeconds(pipe.transcript_words)

\* no diarization segments are available: the pipeline is not loaded, raises,
\* or yields no turn
NoSegmentsAvailable ==
    \/ audio.diarization.kind \in {"unloaded", "raises"}
    \/ audio.diarization.turns = <<>>

NewCall == calls'[Len(calls')]

\* C28: a call that is denied leaves the sorted set stored for its key as it
\* was; only a call that is allowed adds its timestamp.
C28_DeniedCallRecordsNothing ==
    [][(Len(calls') = Len(calls) + 1 /\ ~NewCall.allowed)
          => Stored(zsets'[NewCall.key], now) = Stored(zsets[NewCall.key], now)]_vars

(***************************************************************************)
(* Properties of the order in which intervals are tried.                   *)
(***************************************************************************)
\* the holder of the midpoint of w that comes first in the iteration order:
\* speakers in the order of the segmentation, and each speaker's intervals in
\* their order
FirstHolder(w) ==
    CHOOSE h \in Holders(w) :
        \A g \in Holders(w) : h[1] < g[1] \/ (h[1] = g[1] /\ h[2] <= g[2])

\* C29: every word whose midpoint some interval holds (start <= m <= end) has
\* the label of the first such interval in the iteration order, also when
\* intervals of different speakers overlap or meet at the midpoint.
C29_FirstHolderWins ==
    Assigned =>
        \A n \in 1..Len(InputWords) :
            Holders(InputWords[n]) # {}
                => pipe.transcript_words[n].speaker
                       = OwnerOf(FirstHolder(InputWords[n]))

(***************************************************************************)
(* Properties of the dispatcher's error path.                              *)
(***************************************************************************)
\* C30 as stated: whenever an execution has got past its except branch, to the
\* FAILURE update of the task state or to the re-raise, the job record is
\* stored with status failed.
C30_FailedCommittedBeforeReraise ==
    run.pc \in {"update_state_failure", "raised"}
        => Exists(TaskId) /\ Row.status = "failed"

\* C30 as amended: an exception raised in the try block always enters the
\* except branch; the task state is set to FAILURE and the exception re-raised
\* only after the except branch has made its attempt to store the status
\* failed with str(e); when the attempt succeeds the record is stored failed
\* before either, and when the attempt itself raises the record is left as
\* stored and FAILURE and the re-raise follow all the same.
C30_FailureWriteAttemptedFirst ==
    [][/\ (run.exc = Null /\ run'.exc # Null) => run'.pc = "handler"
       /\ (run.pc # "raised" /\ run'.pc = "raised")
            => run.pc = "update_state_failure"
       /\ (taskState' # taskState /\ taskState'.state = "FAILURE")
            => run.pc = "update_state_failure"
       /\ (run.pc # "update_state_failure" /\ run'.pc = "update_state_failure")
            => /\ run.pc = "handler"
               /\ run'.handlerOk
                    => /\ sessions'[TaskId].status = "failed"
                       /\ sessions'[TaskId].error_message = run.exc
               /\ ~run'.handlerOk => sessions' = sessions
       /\ (run.pc = "update_state_failure" /\ run.handlerOk)
            => Row.status = "failed"]_vars

\* C30 witness: process_audio raised, the except branch stored the status
\* failed with the message, and then the task state became FAILURE and the
\* exception was re-raised.
C30_Witness ==
    /\ run.pc = "raised"
    /\ run.src = "process_audio"
    /\ run.handlerOk
    /\ Row.status = "failed"
    /\ Row.error_message = Some("boom")
    /\ taskState.state = "FAILURE"

(***************************************************************************)
(* Properties of the shared transcriber.                                   *)
(***************************************************************************)
\* the jobs whose call of get_transcriber has returned
Served == {j \in Jobs : getters[j].pc = "done"}

\* C31: within one worker process the AudioTranscriber is constructed at most
\* once, however the jobs' calls of get_transcriber interleave, and every job
\* gets the same instance.
C31_OneInstancePerProcess ==
    /\ Cardinality(Constructors) <= 1
    /\ \A j, k \in Served : getters[j].got = getters[k].got

FailedPoll == PollStep /\ stream.cached = Null /\ stream'.cached = Null

\* the error events a stream has emitted
ErrorEvents ==
    {i \in 1..Len(stream.events) : stream.events[i].status = Some("error")}

\* C33: an iteration of the stream's loop whose read of the job record raises,
\* or finds no record, emits exactly one event, with status error, and ends
\* the stream; an ended stream makes no further iteration and emits nothing.
C33_FailedPollEndsStream ==
    [][/\ FailedPoll => /\ Len(NewEvents) = 1
                        /\ NewEvents[1].kind = "error"
                        /\ NewEvents[1].status = Some("error")
                        /\ stream'.pc = "ended"
                        /\ Cardinality(ErrorEvents') = 1
       /\ stream.pc = "ended" => stream' = stream]_vars

\* C33 witness: the job is being processed, the first read of the stream has
\* raised, and the stream has ended with the error event as its only event.
C33_Witness ==
    /\ stream.pc = "ended"
    /\ stream.cached = Null
    /\ stream.polls = 1
    /\ Len(stream.events) = 1
    /\ stream.events[1] = ErrorEvent("boom")
    /\ Row.status = "processing"

\* the record an iteration of the stream's loop has read
Polled == stream'.cached[1]

\* C34: an iteration of the stream's loop that reads the record emits a status
\* snapshot exactly when the status read differs from the status of the
\* snapshot emitted before, whatever the progress read; the first such
\* iteration always emits one; and no two consecutive snapshots of a stream
\* carry the same status.
C34_SnapshotOnlyOnStatusChange ==
    [][(PollStep /\ stream'.cached # Null)
          => /\ Some(Polled.status) = stream.last_status => NewEvents = <<>>
             /\ Some(Polled.status) # stream.last_status
                  => /\ NewEvents # <<>>
                     /\ NewEvents[1] = Snapshot(Polled)
                     /\ stream'.last_status = Some(Polled.status)
             /\ SnapshotsOf(stream.events) = <<>> => NewEvents # <<>>
             /\ LET emitted == SnapshotsOf(stream'.events)
                IN  \A i \in 1..(Len(emitted) - 1) :
                        emitted[i].status # emitted[i + 1].status]_vars

\* C34 witness: the stream emitted the snapshot of processing at progress 10
\* with its first iteration; the job has since gone on to progress 80 with the
\* same status, and the second iteration has emitted nothing.
C34_Witness ==
    /\ stream.pc = "polling"
    /\ stream.polls = 2
    /\ Len(stream.events) = 1
    /\ stream.events[1].status = Some("processing")
    /\ stream.events[1].progress = Some(10)
    /\ Row.status = "processing"
    /\ Row.progress = 80

(***************************************************************************)
(* Properties of the fallback segmentation.                                *)
(***************************************************************************)
\* perform_diarization has returned without a diarization pipeline
FallbackReturned ==
    /\ audio.diarization.kind = "unloaded"
    /\ pipe.pc \in {"assign", "stats", "return", "done"}

\* the windows of the mapping returned, each with its speaker
Windows ==
    UNION {{[speaker |-> pipe.speaker_segments[i].id,
             start   |-> pipe.speaker_segments[i].segments[k].start,
             end     |-> pipe.speaker_segments[i].segments[k].end] :
               k \in 1..Len(pipe.speaker_segments[i].segments)} :
             i \in 1..Len(pipe.speaker_segments)}

\* the time points at which coverage is looked at: every quarter of a second
\* of the recording, and its end
TimePoints ==
    {t \in 0..pipe.duration : t % (Milli \div 4) = 0} \cup {pipe.duration}

\* C35: without a diarization pipeline perform_diarization returns windows of
\* at most 30 seconds, the first starting at 0, each later one starting where
\* another ends, the last ending at the recording's duration, given to
\* speaker_1 and speaker_2 in turn from speaker_1 on; every time point of a
\* recording that has a duration lies in a window, and a recording of
\* duration 0 gets no window.
C35_FallbackWindows ==
    FallbackReturned
        => /\ \A w \in Windows :
                /\ w.start < w.end
                /\ w.end - w.start <= 30 * Milli
                /\ w.end <= pipe.duration
                /\ w.start % (30 * Milli) = 0
                /\ w.speaker = IF (w.start \div (30 * Milli)) % 2 = 0
                               THEN "speaker_1" ELSE "speaker_2"
                /\ w.start > 0 => \E v \in Windows : v.end = w.start
                /\ w.end < pipe.duration
                     => /\ w.end - w.start = 30 * Milli
                        /\ \E v \in Windows : /\ v.start = w.end
                                              /\ v.speaker # w.speaker
                /\ \A v \in Windows : v.start = w.start => v = w
           /\ pipe.duration > 0
                => /\ \E w \in Windows : w.start = 0
                   /\ \E w \in Windows : w.end = pipe.duration
                   /\ \A t \in TimePoints :
                        \E w \in Windows : w.start <= t /\ t <= w.end
           /\ pipe.duration = 0 => pipe.speaker_segments = <<>>

\* C35 witness: a recording of 70 seconds has got the windows 0-30 and 60-70
\* for speaker_1 and 30-60 for speaker_2.
C35_Witness ==
    /\ FallbackReturned
    /\ pipe.duration = 70 * Milli
    /\ pipe.speaker_segments
         = <<[id |-> "speaker_1",
              segments |-> <<[start |-> 0, end |-> 30 * Milli],
                             [start |-> 60 * Milli, end |-> 70 * Milli]>>],
             [id |-> "speaker_2",
              segments |-> <<[start |-> 30 * Milli, end |-> 60 * Milli]>>]>>

HoldsAll(seq, items) ==
    /\ Len(seq) >= Len(items)
    /\ \A i \in 1..Len(items) : \E k \in 1..Len(seq) : seq[k] = items[i]

\* C37: while the job record is stored with status completed, the word rows
\* and speaker rows of the job's result are all stored; so every status
\* response that reports completed, and every result event of a stream,
\* carries a transcript with every word of the result and a speaker list with
\* every speaker.
C37_CompletedHasAllRows ==
    /\ (Exists(TaskId) /\ Row.status = "completed")
          => /\ HoldsAll(WhereSession(wordRows, TaskId),
                         WordRowsOf(TaskId, audioResult))
             /\ HoldsAll(WhereSession(speakerRows, TaskId),
                         SpeakerRowsOf(TaskId, audioResult))
    /\ statusReply.response.status = Some("completed")
          => /\ statusReply.response.result # Null
             /\ HoldsAll(statusReply.response.result[1].transcript,
                         audioResult.transcript)
             /\ HoldsAll(statusReply.response.result[1].speakers,
                         audioResult.speakers)
    /\ \A i \in 1..Len(stream.events) :
          stream.events[i].kind = "result"
              => /\ HoldsAll(stream.events[i].result[1].transcript,
                             audioResult.transcript)
                 /\ HoldsAll(stream.events[i].result[1].speakers,
                             audioResult.speakers)

\* C37 witness: a status request was answered completed with the two words and
\* the two speakers of the result, before the task state was set to SUCCESS.
C37_Witness ==
    /\ run.pc = "update_state_success"
    /\ Row.status = "completed"
    /\ statusReply.response.status = Some("completed")
    /\ Len(statusReply.response.result[1].transcript) = 2
    /\ Len(statusReply.response.result[1].speakers) = 2

(***************************************************************************)
(* Properties of the submission's order of steps.                          *)
(***************************************************************************)
\* C38: a submission that is answered with an error response has left no job
\* record in the store, also when the dispatch failed after the record was
\* committed.
C38_ErrorLeavesNoRecord ==
    (request.pc = "returned" /\ request.code >= 400) => ~Exists(TaskId)

\* the job record is in the table
RecordIn(table) == TaskId \in DOMAIN table

\* C39: the job record is stored with status pending when the task is sent to
\* the queue, so an execution always finds the record of its job and never
\* raises 'Session not found'.
C39_RecordCommittedBeforeDispatch ==
    [][/\ broker'.sent > broker.sent
            => /\ Exists(TaskId)
               /\ Row.status = "pending"
       /\ broker'.sent > 0 => RecordIn(sessions')
       /\ run'.pc # "idle" => RecordIn(sessions')
       /\ (run.pc = "get" /\ run'.pc = "handler")
            => run'.exc # Some("Session t1 not found")]_vars

\* C39 witness: the first execution of the job has found the record, still
\* pending, and is about to mark it processing.
C39_Witness ==
    /\ run.pc = "commit_processing"
    /\ broker = [sent |-> 1, delivered |-> 1]
    /\ Row.status = "pending"
    /\ request.code = 200

\* the rate limiter's key of the submission
SubmitKey == RateKey(Owner, "ip1")

\* C40: create_transcription_task asks the rate limiter before it looks at the
\* input: every submission handled while a limiter exists makes one call of
\* check_rate_limit, and when Redis answers that call its timestamp is in the
\* caller's stored window afterwards, whether the submission is then admitted,
\* denied (429) or rejected as malformed (400).
C40_LimiterCountsBeforeValidation ==
    [][(request.pc = "start" /\ request'.pc # "start" /\ config.redis_client)
          => /\ Len(calls') = Len(calls) + 1
             /\ NewCall.key = SubmitKey
             /\ NewCall.t = now
             /\ ~NewCall.allowed => request'.code = 429
             /\ ~NewCall.degraded
                  => /\ now \in Stored(zsets'[SubmitKey], now)
                     /\ zsets'[SubmitKey].expire_at = now + window_seconds]_vars

\* C40 witness: a malformed submission was answered 400 and its timestamp is
\* stored in the caller's window.
C40_Witness ==
    /\ request.pc = "returned"
    /\ request.code = 400
    /\ Len(calls) = 1
    /\ calls[1].allowed /\ ~calls[1].degraded
    /\ zsets[SubmitKey].members = {now}
    /\ sessions = <<>>

====
